---- MODULE Spec2Model ----
(***************************************************************************)
(* The scoring engine of dcss-scoreboard (src/scoreboard/scoring.py):      *)
(* the write-back LRU caches in front of the store, the blacklist guard,   *)
(* the per-game aggregate update, the achievement rules, the streak state  *)
(* machine with its grief heuristic, and the score_games loop.             *)
(*                                                                         *)
(* The persistent store (module `model`) and the static tables BLACKLISTS  *)
(* and MANUAL_ACHIEVEMENTS are not part of the source tree; they are       *)
(* modelled from their documented contract.  pylru.lrucache is modelled    *)
(* from the library: an ordered list, most recently used first.            *)
(***************************************************************************)
EXTENDS Integers, Sequences, FiniteSets, TLC

\* ------------------------------------------------------------------ bounds
\* Number of games the ingestion may put into the store.
MaxGames == 3
\* score_games: limit of one fetch (5000 in the code, scaled down).
BatchLimit == 2
\* Capacity of PLAYER_STATS_CACHE (1000 in the code, scaled down).
PlayerCacheCap == 1
\* Capacity of GLOBAL_STATS_CACHE (1000 in the code; it only ever holds 2 keys).
GlobalCacheCap == 2
\* Capacity of BLACKLISTED_PLAYERS_CACHE (1000 in the code, scaled down).
BlacklistCacheCap == 2
\* Number of store errors injected over a behaviour.
MaxAborts == 1
\* Number of games in the store in the streak-breaking scenarios.
MaxGriefGames == 4

\* ------------------------------------------------------- program constants
GriefDurConsumables == 600
GriefTurnConsumables == 1000
GriefDurClean == 1200
GriefTurnClean == 5000
GoodPlayerWins == 10
CenturyPlayerWins == 100
\* raw_data['zigdeepest'] of a cleared ziggurat ('27').
ZigCleared == 27
\* A raw_data field that is no key of the payload.
Missing == -1

\* ------------------------------------------------------------ static data
\* Playable domains of constants.py, scaled down to two values each.
PLAYABLE_RACES == {"Hu", "Mi"}
PLAYABLE_ROLES == {"Fi", "Be"}
PLAYABLE_GODS == {"Zin", "Trog"}
RACE_TO_GREAT_RACE == [Hu |-> "greathuman", Mi |-> "greatminotaur"]
\* ROLE_TO_GREAT_ROLE also maps roles that are not playable ('DK', 'He').
ROLE_TO_GREAT_ROLE ==
    [Fi |-> "greatfighter", Be |-> "greatberserker", DK |-> "greatdeathknight"]

\* Player names as they occur in game records, and str.lower() on them.
Names == {"Foo", "foo", "Bot"}
Lower == [Foo |-> "foo", foo |-> "foo", Bot |-> "bot"]
CNames == {Lower[n] : n \in Names}

\* Iteration over a server id as a Python str: its characters.
Chars ==
    [cao |-> <<"c", "a", "o">>, cbro |-> <<"c", "b", "r", "o">>,
     cdo |-> <<"c", "d", "o">>]

\* const.BLACKLISTS: the static bot list and the static griefer table.
BLACKLISTS == [bots |-> {"Bot"}, griefers |-> {<<"foo", "cdo">>}]
\* const.MANUAL_ACHIEVEMENTS: player -> achievement id -> value, in dict order.
MANUAL_ACHIEVEMENTS == <<[player |-> "Foo", ach |-> [comborobin |-> 1]]>>

\* ------------------------------------------------------------ sequences
Range(s) == {s[i] : i \in 1..Len(s)}

NoDup(s) == \A i, j \in 1..Len(s) : i # j => s[i] # s[j]

RECURSIVE SumOver(_, _, _)
\* Sum of field value F[g] over the gids of sequence s (F maps gid -> Int).
SumOver(s, F, i) ==
    IF i > Len(s) THEN 0 ELSE F[s[i]] + SumOver(s, F, i + 1)

Min(a, b) == IF a < b THEN a ELSE b

\* ----------------------------------------------------- pylru.lrucache
\* A cache is a sequence of [k, v], most recently used first.
CacheHas(c, k) == \E i \in 1..Len(c) : c[i].k = k

CacheIdx(c, k) == CHOOSE i \in 1..Len(c) : c[i].k = k

\* lrucache.peek-like read of the value (no reordering).
CacheVal(c, k) == c[CacheIdx(c, k)].v

CacheWithout(c, k) == SelectSeq(c, LAMBDA e : e.k # k)

\* lrucache.__getitem__: the entry moves to the head.
CacheTouch(c, k) ==
    IF CacheHas(c, k) THEN <<c[CacheIdx(c, k)]>> \o CacheWithout(c, k) ELSE c

\* Mutant: the entry pushed out is dropped without the callback.
CacheEvicted_Dropped(c, k, cap) == <<>>

\* The entry lrucache.__setitem__ pushes out (as a 0/1-element sequence):
\* the tail, when the key is new and the cache is full.
CacheEvicted(c, k, cap) ==
    IF ~CacheHas(c, k) /\ Len(c) >= cap /\ Len(c) > 0 THEN <<c[Len(c)]>> ELSE <<>>

\* lrucache.__setitem__: update in place or insert at the head, dropping the tail.
CacheSet(c, k, v, cap) ==
    IF CacheHas(c, k) THEN <<[k |-> k, v |-> v]>> \o CacheWithout(c, k)
    ELSE IF Len(c) >= cap /\ Len(c) > 0
         THEN <<[k |-> k, v |-> v]>> \o SubSeq(c, 1, Len(c) - 1)
         ELSE <<[k |-> k, v |-> v]>> \o c

\* ------------------------------------------------------------------ state
VARIABLES
    games,          \* the store's game table: gid = index, ascending
    scored,         \* gids whose `scored` flag is set
    storeStats,     \* the store's player_stats table: name -> <<>> or <<stats>>
    storeGlobal,    \* the store's global_stats table, per key <<>> or <<value>>
    storeBlacklist, \* the store's blacklist table, in insertion order
    pcache,         \* PLAYER_STATS_CACHE of the running process
    gcache,         \* GLOBAL_STATS_CACHE of the running process
    blcache,        \* BLACKLISTED_PLAYERS_CACHE of the running process
    pc,             \* where the process is: idle, loop, batch, done, aborted
    batch,          \* the gids of the fetched batch still to be scored
    aborts,         \* history: number of runs that ended in an exception
    counted,        \* history: name -> games scored while not blacklisted
    last,           \* history: what the last step did
    capacity,       \* the size the stats caches were constructed with
    latest,         \* history of the cache clients: key -> value last set
    original        \* history: <<>> or <<the aggregates a rebuild deleted>>

vars ==
    <<games, scored, storeStats, storeGlobal, storeBlacklist, pcache, gcache,
      blcache, pc, batch, aborts, counted, last, capacity, latest, original>>

\* ------------------------------------------------------------ game rows
\* model.game(gid) / get_game(gid)
get_game(gid) == games[gid]

Won(g) == g.ktyp = "winning"

\* model.first_game(name, src): the first recorded game of name on src.
first_game(name, src) ==
    CHOOSE i \in 1..Len(games) :
        /\ games[i].name = name /\ games[i].src = src
        /\ \A j \in 1..Len(games) :
               (games[j].name = name /\ games[j].src = src) => i <= j

\* ---------------------------------------------------------- player stats
Rate(n, d) == [n |-> n, d |-> d]

\* Two quotients are the same number.
SameRate(a, b) == a.n * b.d = b.n * a.d

\* load_player_stats: the initial stats of a player without any.
InitialStats ==
    [wins |-> <<>>, games |-> 0, winrate |-> Rate(0, 1), total_playtime |-> 0,
     total_score |-> 0, avg_score |-> Rate(0, 1), boring_games |-> 0,
     boring_rate |-> Rate(0, 1),
     god_wins |-> [k \in PLAYABLE_GODS |-> 0],
     race_wins |-> [k \in PLAYABLE_RACES |-> 0],
     role_wins |-> [k \in PLAYABLE_ROLES |-> 0],
     achievements |-> [a \in {} |-> 0],
     last_active |-> 0,
     fastest_realtime |-> 0, fastest_turncount |-> 0, highscore |-> 0,
     contrib |-> <<>>]

\* Mutant: a player that is not cached starts from the initial stats.
LoadStats_CacheOnly(c, st, name) ==
    IF CacheHas(c, name) THEN CacheVal(c, name) ELSE InitialStats

\* load_player_stats(name): the cached value, else the stored one, else the
\* initial stats.
LoadStats(c, st, name) ==
    IF CacheHas(c, name) THEN CacheVal(c, name)
    ELSE IF st[name] # <<>> THEN st[name][1] ELSE InitialStats

\* dict[key] = value on a mapping with lazily appearing keys.
Put(f, k, v) == [x \in DOMAIN f \cup {k} |-> IF x = k THEN v ELSE f[x]]

\* dict.get(key, 0)
Get0(f, k) == IF k \in DOMAIN f THEN f[k] ELSE 0

Present(f) == {k \in DOMAIN f : f[k] > 0}

\* Mutant: the prefilter also skips a win count equal to the number of roles.
great_race_StrictPrefilter(race, wins, race_wins, ach) ==
    IF race \notin DOMAIN RACE_TO_GREAT_RACE THEN FALSE
    ELSE IF RACE_TO_GREAT_RACE[race] \in DOMAIN ach THEN TRUE
    ELSE IF race_wins[race] <= Cardinality(PLAYABLE_ROLES) THEN FALSE
    ELSE PLAYABLE_ROLES \subseteq
             {get_game(wins[i]).bg :
                 i \in {j \in 1..Len(wins) : get_game(wins[j]).rc = race}}

\* great_race(race, player_stats, achievements)
great_race(race, wins, race_wins, ach) ==
    IF race \notin DOMAIN RACE_TO_GREAT_RACE THEN FALSE
    ELSE IF RACE_TO_GREAT_RACE[race] \in DOMAIN ach THEN TRUE
    ELSE IF race_wins[race] < Cardinality(PLAYABLE_ROLES) THEN FALSE
    ELSE PLAYABLE_ROLES \subseteq
             {get_game(wins[i]).bg :
                 i \in {j \in 1..Len(wins) : get_game(wins[j]).rc = race}}

\* great_role(role, player_stats, achievements)
great_role(role, wins, role_wins, ach) ==
    IF role \notin DOMAIN ROLE_TO_GREAT_ROLE THEN FALSE
    ELSE IF ROLE_TO_GREAT_ROLE[role] \in DOMAIN ach THEN TRUE
    ELSE IF role_wins[role] < Cardinality(PLAYABLE_RACES) THEN FALSE
    ELSE PLAYABLE_RACES \subseteq
             {get_game(wins[i]).rc :
                 i \in {j \in 1..Len(wins) : get_game(wins[j]).bg = role}}

\* True where Python stores True in the achievement dict.
AchTrue == 1

\* achievements[id] = True, when cond
Grant(ach, cond, id) == IF cond THEN Put(ach, id, AchTrue) ELSE ach

\* achievements[id] = 1 or += 1, when cond
Count(ach, cond, id) == IF cond THEN Put(ach, id, Get0(ach, id) + 1) ELSE ach

\* Mutant: greaterplayer is given for the roles alone.
GrantGreater_WithoutGreat(ach, role_wins) ==
    Grant(ach, PLAYABLE_ROLES \subseteq Present(role_wins), "greaterplayer")

\* score_game: greaterplayer needs greatplayer in the achievements.
GrantGreater(ach, role_wins) ==
    Grant(ach, "greatplayer" \in DOMAIN ach /\ PLAYABLE_ROLES \subseteq Present(role_wins),
          "greaterplayer")

\* score_game: "Check for great race completion"
GrantGreatRace(ach, race, wins, race_wins) ==
    IF great_race(race, wins, race_wins, ach)
    THEN Put(ach, RACE_TO_GREAT_RACE[race], AchTrue) ELSE ach

\* score_game: "Check for great role completion"
GrantGreatRole(ach, role, wins, role_wins) ==
    IF great_role(role, wins, role_wins, ach)
    THEN Put(ach, ROLE_TO_GREAT_ROLE[role], AchTrue) ELSE ach

\* score_game, won game: stats['god_wins'][god] += 1.  A god that is no key
\* raises KeyError instead (GodKeyError).
GodWinsAfter(god_wins, god) ==
    IF god \in DOMAIN god_wins THEN [god_wins EXCEPT ![god] = @ + 1] ELSE god_wins

\* score_game, won game: race_wins / role_wins, incremented or set to 1.
WinsAfter(f, k) == Put(f, k, Get0(f, k) + 1)

\* Mutant: the first win with any god unlocks polytheist.
PolytheistUnlocked_FirstGod(gw, god) == Get0(gw, god) = 1

\* score_game: the polytheist test, on the god wins after the increment: the
\* count of the god has just become 1 and no playable god is without a win.
PolytheistUnlocked(gw, god) ==
    Get0(gw, god) = 1 /\ PLAYABLE_GODS \subseteq Present(gw)

\* score_game, won game: the achievements, rule after rule.
WinAchievements(stats, gid) ==
    LET g == get_game(gid)
        wins2 == Append(stats.wins, gid)
        gw == GodWinsAfter(stats.god_wins, g.god)
        rw == WinsAfter(stats.race_wins, g.rc)
        ow == WinsAfter(stats.role_wins, g.bg)
        a1 == Grant(stats.achievements, PolytheistUnlocked(gw, g.god), "polytheist")
        a2 == Grant(a1, Get0(stats.race_wins, g.rc) = 0
                        /\ PLAYABLE_RACES \subseteq Present(rw), "greatplayer")
        a3 == GrantGreater(a2, ow)
        a4 == Grant(a3, Len(wins2) >= GoodPlayerWins, "goodplayer")
        a5 == Grant(a4, Len(wins2) >= CenturyPlayerWins, "centuryplayer")
        a6 == GrantGreatRace(a5, g.rc, wins2, rw)
        a7 == GrantGreatRole(a6, g.bg, wins2, ow)
        a8 == Count(a7, g.potionsused = 0 /\ g.scrollsused = 0,
                    "no_potion_or_scroll_win")
    IN  Count(a8, g.zigdeepest = ZigCleared, "cleared_zig")

\* score_game, the branch of a won game: wins, best-game references, win
\* counts and achievements.
ScoreWin(stats, gid) ==
    LET g == get_game(gid)
        fr == IF stats.fastest_realtime = 0
                  \/ g.dur < get_game(stats.fastest_realtime).dur
              THEN gid ELSE stats.fastest_realtime
        ft == IF stats.fastest_turncount = 0
                  \/ g.turn < get_game(stats.fastest_turncount).turn
              THEN gid ELSE stats.fastest_turncount
    IN  [stats EXCEPT !.wins = Append(@, gid), !.fastest_realtime = fr,
                      !.fastest_turncount = ft,
                      !.god_wins = GodWinsAfter(@, g.god),
                      !.race_wins = WinsAfter(@, g.rc),
                      !.role_wins = WinsAfter(@, g.bg),
                      !.achievements = WinAchievements(stats, gid)]

\* score_game, the branch of a game that was not won.
ScoreLoss(stats, gid) ==
    IF get_game(gid).ktyp \in {"leaving", "quitting"}
    THEN [stats EXCEPT !.boring_games = @ + 1]
    ELSE stats

\* Mutant: avg_score is computed before total_score absorbs the game.
UpdateRates_StaleTotal(stats, gid) ==
    [stats EXCEPT !.highscore =
                      IF @ = 0 \/ get_game(gid).sc > get_game(@).sc THEN gid ELSE @,
                  !.winrate = Rate(Len(stats.wins), stats.games),
                  !.total_score = @ + get_game(gid).sc,
                  !.avg_score = Rate(stats.total_score, stats.games),
                  !.boring_rate = Rate(stats.boring_games, stats.games)]

\* score_game: "Update other player stats": highscore and the three rates.
UpdateRates(stats, gid) ==
    LET g == get_game(gid)
        hs == IF stats.highscore = 0 \/ g.sc > get_game(stats.highscore).sc
              THEN gid ELSE stats.highscore
        total == stats.total_score + g.sc
    IN  [stats EXCEPT !.highscore = hs,
                      !.winrate = Rate(Len(stats.wins), stats.games),
                      !.total_score = total,
                      !.avg_score = Rate(total, stats.games),
                      !.boring_rate = Rate(stats.boring_games, stats.games)]

\* score_game: the aggregate of a player after one more game.  `contrib`
\* is history: the gids this aggregate has absorbed.
ScoreStats(stats, gid) ==
    LET g == get_game(gid)
        s1 == [stats EXCEPT !.games = @ + 1, !.last_active = g.end,
                            !.total_playtime = @ + g.dur,
                            !.contrib = Append(@, gid)]
        s2 == IF Won(g) THEN ScoreWin(s1, gid) ELSE ScoreLoss(s1, gid)
    IN  UpdateRates(s2, gid)

\* score_game: stats['god_wins'][god] += 1 on a god that is no key raises.
GodKeyError(gid) == Won(get_game(gid)) /\ get_game(gid).god \notin PLAYABLE_GODS

\* -------------------------------------------------------------- blacklist
\* BLACKLISTED_PLAYERS_CACHE.get(name, [])
BlEntry(c, name) == IF CacheHas(c, name) THEN CacheVal(c, name) ELSE <<>>

\* Mutant: only the learned cache is consulted, not the static lists.
is_blacklisted_DynamicOnly(c, name, src) == src \in Range(BlEntry(c, name))

\* is_blacklisted(name, src)
is_blacklisted(c, name, src) ==
    \/ name \in BLACKLISTS.bots
    \/ <<name, src>> \in BLACKLISTS.griefers
    \/ src \in Range(BlEntry(c, name))

\* is_blacklisted: the cache after the call (lrucache.get moves the entry to
\* the head; the static lists are consulted first).
BlAfterLookup(c, name, src) ==
    IF name \in BLACKLISTS.bots \/ <<name, src>> \in BLACKLISTS.griefers
    THEN c ELSE CacheTouch(c, name)

\* add_to_blacklist_cache(name, src): a new entry is the list [src]; an
\* existing list is extended with `+= src`, that is with the characters of src.
add_to_blacklist_cache(c, name, src) ==
    IF ~CacheHas(c, name) THEN CacheSet(c, name, <<src>>, BlacklistCacheCap)
    ELSE CacheSet(c, name, CacheVal(c, name) \o Chars[src], BlacklistCacheCap)

RECURSIVE PreloadFrom(_, _, _)
\* load_blacklisted_players: add every stored pair, in table order.
PreloadFrom(c, pairs, i) ==
    IF i > Len(pairs) THEN c
    ELSE PreloadFrom(add_to_blacklist_cache(c, pairs[i][1], pairs[i][2]), pairs, i + 1)

load_blacklisted_players(c, pairs) == PreloadFrom(c, pairs, 1)

\* ------------------------------------------------------------ grief test
\* is_grief: the consumable thresholds (lines 48-59), once the first-game
\* test has let the game through.
GriefThresholds(g) ==
    IF g.potionsused > 0 \/ g.scrollsused > 0
    THEN g.dur < GriefDurConsumables \/ g.turn < GriefTurnConsumables
    ELSE g.dur < GriefDurClean \/ g.turn < GriefTurnClean

\* Mutant: the first game on a server is the exempt one, later ones are tested.
GriefEvaluated_NotFirst(gid) ==
    first_game(get_game(gid).name, get_game(gid).src) # gid

\* is_grief: the game is evaluated only when it is the first game of the
\* player on its server ("Not a grief if not the player's first game").
GriefEvaluated(gid) ==
    first_game(get_game(gid).name, get_game(gid).src) = gid

\* is_grief: raw_data['potionsused'] / ['scrollsused'] is read with [] and
\* raises KeyError when absent (scrollsused is only read if potionsused <= 0).
GriefKeyError(gid) ==
    LET g == get_game(gid)
    IN  /\ GriefEvaluated(gid)
        /\ \/ g.potionsused = Missing
           \/ (g.potionsused <= 0 /\ g.scrollsused = Missing)

\* Mutant: every loss is tested against the thresholds.
is_grief_AnyGame(gid) == GriefThresholds(get_game(gid))

\* is_grief(game): the returned flag.
is_grief(gid) == GriefEvaluated(gid) /\ GriefThresholds(get_game(gid))

\* ----------------------------------------------------------------- streaks
NoStreaks == [c \in CNames |-> <<>>]

\* A value of GLOBAL_STATS_CACHE: the active map or the completed list.
GActive(m) == [m |-> m, s |-> <<>>]

GCompleted(s) == [m |-> NoStreaks, s |-> s]

\* load_global_stat('active_streaks', {})
LoadActive(c, sg) ==
    IF CacheHas(c, "active_streaks") THEN CacheVal(c, "active_streaks").m
    ELSE IF sg.active_streaks # <<>> THEN sg.active_streaks[1] ELSE NoStreaks

\* load_global_stat('completed_streaks', [])
LoadCompleted(c, sg) ==
    IF CacheHas(c, "completed_streaks") THEN CacheVal(c, "completed_streaks").s
    ELSE IF sg.completed_streaks # <<>> THEN sg.completed_streaks[1] ELSE <<>>

\* Mutant: a game that starts at the recorded start of the streak is valid.
is_valid_streak_addition_NotBefore(g, streak) ==
    IF streak = <<>> THEN TRUE ELSE g.start >= streak[1].start

\* is_valid_streak_addition(game, streak); streak is <<>> or <<streak>>.
is_valid_streak_addition(g, streak) ==
    IF streak = <<>> THEN TRUE ELSE g.start > streak[1].start

\* The key 'end' of a streak that has none yet.
NoEnd == -1

\* Mutant: a streak of one win is finalised too (len(wins) > 0).
StreakPath_OneWin(gid, active) ==
    LET g == get_game(gid)
        streak == active[Lower[g.name]]
    IN  IF ~is_valid_streak_addition(g, streak) THEN "invalid"
        ELSE IF Won(g) THEN (IF streak # <<>> THEN "extend" ELSE "start")
        ELSE IF streak # <<>> /\ Len(streak[1].wins) > 0
             THEN (IF GriefKeyError(gid) THEN "keyerror"
                   ELSE IF is_grief(gid) THEN "grief" ELSE "finalize")
        ELSE IF streak # <<>> THEN "discard" ELSE "noop"

\* score_game_vs_streaks: which branch the game takes.
StreakPath(gid, active) ==
    LET g == get_game(gid)
        streak == active[Lower[g.name]]
    IN  IF ~is_valid_streak_addition(g, streak) THEN "invalid"
        ELSE IF Won(g) THEN (IF streak # <<>> THEN "extend" ELSE "start")
        ELSE IF streak # <<>> /\ Len(streak[1].wins) > 1
             THEN (IF GriefKeyError(gid) THEN "keyerror"
                   ELSE IF is_grief(gid) THEN "grief" ELSE "finalize")
        ELSE IF streak # <<>> THEN "discard" ELSE "noop"

\* Mutant: a new streak records the name as it is written in the game.
StreakAfterWin_RawName(gid, streak) ==
    LET g == get_game(gid)
    IN  IF streak # <<>>
        THEN [streak[1] EXCEPT !.wins = Append(@, gid), !.end = g.end]
        ELSE [cname |-> g.name, wins |-> <<gid>>, start |-> g.end,
              end |-> NoEnd, streak_breaker |-> 0]

\* score_game_vs_streaks: the streak of a win (extended or started).
StreakAfterWin(gid, streak) ==
    LET g == get_game(gid)
    IN  IF streak # <<>>
        THEN [streak[1] EXCEPT !.wins = Append(@, gid), !.end = g.end]
        ELSE [cname |-> Lower[g.name], wins |-> <<gid>>, start |-> g.end,
              end |-> NoEnd, streak_breaker |-> 0]

\* Mutant: a one-win streak stays in the active map after a loss.
ActiveAfter_KeepsShort(gid, active) ==
    LET cname == Lower[get_game(gid).name]
        path == StreakPath(gid, active)
    IN  IF path \in {"extend", "start"}
        THEN [active EXCEPT ![cname] = <<StreakAfterWin(gid, active[cname])>>]
        ELSE IF path = "finalize"
        THEN [active EXCEPT ![cname] = <<>>]
        ELSE active

\* score_game_vs_streaks: the active map after the game.
ActiveAfter(gid, active) ==
    LET cname == Lower[get_game(gid).name]
        path == StreakPath(gid, active)
    IN  IF path \in {"extend", "start"}
        THEN [active EXCEPT ![cname] = <<StreakAfterWin(gid, active[cname])>>]
        ELSE IF path \in {"finalize", "discard"}
        THEN [active EXCEPT ![cname] = <<>>]
        ELSE active

\* Mutant: the streak is moved without its streak_breaker.
Finalized_NoBreaker(gid, active) == active[Lower[get_game(gid).name]][1]

\* score_game_vs_streaks: the streak moved to completed_streaks.
Finalized(gid, active) ==
    [active[Lower[get_game(gid).name]][1] EXCEPT !.streak_breaker = gid]

\* ------------------------------------------------------- store write-back
\* model.set_player_stats as the eviction callback of PLAYER_STATS_CACHE.
WritePlayerEvicted(st, ev) ==
    IF ev = <<>> THEN st ELSE [st EXCEPT ![ev[1].k] = <<ev[1].v>>]

\* model.set_global_stat(key, data)
WriteGlobal(sg, k, v) ==
    IF k = "active_streaks" THEN [sg EXCEPT !.active_streaks = <<v.m>>]
    ELSE [sg EXCEPT !.completed_streaks = <<v.s>>]

\* model.set_global_stat as the eviction callback of GLOBAL_STATS_CACHE.
WriteGlobalEvicted(sg, ev) ==
    IF ev = <<>> THEN sg ELSE WriteGlobal(sg, ev[1].k, ev[1].v)

\* Mutant: score_game returns without marking the game scored.
mark_game_scored_Forgotten(sc, gid) == sc

\* model.mark_game_scored(gid), the last statement of score_game.
mark_game_scored(sc, gid) == sc \cup {gid}

\* Mutant: the game is marked scored before set_player_stats, so that a
\* failing write-back of the evicted entry leaves it marked.
ScoredAfterFailure_MarkFirst(sc, gid, f) ==
    IF f = "evict" THEN mark_game_scored(sc, gid) ELSE sc

\* The scored flags when score_game raised at store call f: mark_game_scored
\* is the last statement (line 408), so no failure leaves the game marked.
ScoredAfterFailure(sc, gid, f) == sc

\* ------------------------------------------------------------- score_game
\* set_player_stats(name, stats) on cs = [c: the cache, st: the store table]:
\* the entry pushed out, if any, is written to the store.
SetPlayer(cs, name, stats) ==
    [c |-> CacheSet(cs.c, name, stats, capacity.player),
     st |-> WritePlayerEvicted(cs.st, CacheEvicted(cs.c, name, capacity.player))]

\* set_global_stat(key, data) on cs = [c: the cache, sg: the store table].
SetGlobal(cs, k, v) ==
    [c |-> CacheSet(cs.c, k, v, capacity.global),
     sg |-> WriteGlobalEvicted(cs.sg, CacheEvicted(cs.c, k, capacity.global))]

\* streak['streak_breaker'] = gid acts on the streak inside the cached active
\* map as well (the same object).
MarkBreakerInCache(c, gid, active) ==
    [i \in 1..Len(c) |->
        IF c[i].k = "active_streaks"
        THEN [k |-> c[i].k,
              v |-> GActive([active EXCEPT
                                ![Lower[get_game(gid).name]] =
                                    <<Finalized(gid, active)>>])]
        ELSE c[i]]

\* Mutant: completed_streaks is set to the finalised streak alone.
FinalizeEffects_Replaces(gid, active, cs) ==
    SetGlobal(
        SetGlobal([c |-> MarkBreakerInCache(CacheTouch(cs.c, "completed_streaks"),
                                            gid, active),
                   sg |-> cs.sg],
                  "completed_streaks",
                  GCompleted(<<Finalized(gid, active)>>)),
        "active_streaks", GActive(ActiveAfter(gid, active)))

\* score_game_vs_streaks, finalize branch: completed_streaks is loaded,
\* appended to and set, then the streak is deleted from the active map.
FinalizeEffects(gid, active, cs) ==
    SetGlobal(
        SetGlobal([c |-> MarkBreakerInCache(CacheTouch(cs.c, "completed_streaks"),
                                            gid, active),
                   sg |-> cs.sg],
                  "completed_streaks",
                  GCompleted(Append(LoadCompleted(cs.c, cs.sg),
                                    Finalized(gid, active)))),
        "active_streaks", GActive(ActiveAfter(gid, active)))

\* score_game_vs_streaks(game, won) on cs = [c, sg] after active_streaks was
\* loaded: what it leaves in the global cache and the store.
StreakEffects(gid, active, cs) ==
    IF StreakPath(gid, active) = "finalize" THEN FinalizeEffects(gid, active, cs)
    ELSE IF StreakPath(gid, active) \in {"extend", "start", "discard"}
    THEN SetGlobal(cs, "active_streaks", GActive(ActiveAfter(gid, active)))
    ELSE cs

\* Everything score_game(game_row) computes for a game that is not
\* blacklisted, from the state before the call.
ScoreResult(gid) ==
    [path |-> StreakPath(gid, LoadActive(gcache, storeGlobal)),
     g |-> StreakEffects(gid, LoadActive(gcache, storeGlobal),
                         [c |-> CacheTouch(gcache, "active_streaks"),
                          sg |-> storeGlobal]),
     evP |-> CacheEvicted(pcache, get_game(gid).name, capacity.player),
     p |-> SetPlayer([c |-> CacheTouch(pcache, get_game(gid).name),
                      st |-> storeStats],
                     get_game(gid).name,
                     ScoreStats(LoadStats(pcache, storeStats, get_game(gid).name),
                                gid))]

\* The process dies with an exception: its caches are gone with it.
Exit(why, gid) ==
    /\ pc' = "idle"
    /\ batch' = <<>>
    /\ pcache' = <<>>
    /\ gcache' = <<>>
    /\ blcache' = <<>>
    /\ last' = [op |-> why, gid |-> gid, path |-> "-"]

Abort(why, gid) ==
    /\ Exit(why, gid)
    /\ aborts' = Min(aborts + 1, MaxAborts)

\* The loop of score_games after one game: the next game or the next fetch.
Advance ==
    /\ batch' = Tail(batch)
    /\ pc' = IF Len(batch) = 1 THEN "loop" ELSE "batch"

\* score_game on a blacklisted pair: mark scored and return.
ScoreBlacklisted ==
    /\ pc = "batch"
    /\ LET gid == Head(batch)
           g == get_game(gid)
       IN  /\ is_blacklisted(blcache, g.name, g.src)
           /\ scored' = mark_game_scored(scored, gid)
           /\ blcache' = BlAfterLookup(blcache, g.name, g.src)
           /\ last' = [op |-> "score", gid |-> gid, path |-> "blacklisted"]
    /\ Advance
    /\ UNCHANGED <<games, storeStats, storeGlobal, storeBlacklist, pcache, gcache,
                   aborts, counted,
                   capacity, latest, original>>

\* score_game on a pair that is not blacklisted, without an exception.
ScoreGame ==
    /\ pc = "batch"
    /\ LET gid == Head(batch)
           g == get_game(gid)
           r == ScoreResult(gid)
           bl1 == BlAfterLookup(blcache, g.name, g.src)
       IN  /\ ~is_blacklisted(blcache, g.name, g.src)
           /\ ~GodKeyError(gid)
           /\ r.path # "keyerror"
           /\ blcache' = IF r.path = "grief"
                         THEN add_to_blacklist_cache(bl1, g.name, g.src) ELSE bl1
           /\ storeBlacklist' = IF r.path = "grief"
                                THEN Append(storeBlacklist, <<g.name, g.src>>)
                                ELSE storeBlacklist
           /\ gcache' = r.g.c
           /\ storeGlobal' = r.g.sg
           /\ pcache' = r.p.c
           /\ storeStats' = r.p.st
           /\ scored' = mark_game_scored(scored, gid)
           /\ counted' = [counted EXCEPT ![g.name] = @ + 1]
           /\ last' = [op |-> "score", gid |-> gid, path |-> r.path]
    /\ Advance
    /\ UNCHANGED <<games, aborts, capacity, latest, original>>

\* score_game raising a store error (model.DatabaseError) at one of its store
\* calls: "early" is any call before the first durable write, "evict" the
\* write-back of the entry set_player_stats pushes out, "mark" the final
\* mark_game_scored.
ScoreGameFails(f) ==
    /\ pc = "batch"
    /\ aborts < MaxAborts
    /\ LET gid == Head(batch)
           g == get_game(gid)
           r == ScoreResult(gid)
           bl == is_blacklisted(blcache, g.name, g.src)
           wrote == ~bl /\ f \in {"evict", "mark"}
       IN  /\ bl => f = "mark"
           /\ ~bl => ~GodKeyError(gid) /\ r.path # "keyerror"
           /\ (~bl /\ f = "evict") => r.evP # <<>>
           /\ storeBlacklist' = IF wrote /\ r.path = "grief"
                                THEN Append(storeBlacklist, <<g.name, g.src>>)
                                ELSE storeBlacklist
           /\ storeGlobal' = IF wrote THEN r.g.sg ELSE storeGlobal
           /\ storeStats' = IF ~bl /\ f = "mark" THEN r.p.st ELSE storeStats
           /\ scored' = ScoredAfterFailure(scored, gid, f)
           /\ Abort(f, gid)
    /\ UNCHANGED <<games, counted,
                   capacity, latest, original>>

\* score_game raising KeyError: god_wins[god] on a god outside the playable
\* gods (line 336), or raw_data['potionsused'] in is_grief (line 49).
ScoreGameKeyError ==
    /\ pc = "batch"
    /\ LET gid == Head(batch)
           g == get_game(gid)
       IN  /\ ~is_blacklisted(blcache, g.name, g.src)
           /\ GodKeyError(gid) \/ ScoreResult(gid).path = "keyerror"
           /\ Abort("keyerror", gid)
    /\ UNCHANGED <<games, scored, storeStats, storeGlobal, storeBlacklist, counted,
                   capacity, latest, original>>

\* ------------------------------------------------------------ score_games
\* A new process calls score_games(): load_blacklisted_players().
StartRun ==
    /\ pc = "idle"
    /\ pc' = "loop"
    /\ blcache' = load_blacklisted_players(<<>>, storeBlacklist)
    /\ last' = [op |-> "start", gid |-> 0, path |-> "-"]
    /\ UNCHANGED <<games, scored, storeStats, storeGlobal, storeBlacklist, pcache,
                   gcache, batch, aborts, counted,
                   capacity, latest, original>>

\* The gids of the unscored games, ascending.
Unscored == SelectSeq([i \in 1..Len(games) |-> i], LAMBDA i : i \notin scored)

\* model.all_games(scored=False, limit=...)
all_games(limit) == SubSeq(Unscored, 1, Min(limit, Len(Unscored)))

\* score_games: one fetch that returns games.
Fetch ==
    /\ pc = "loop"
    /\ all_games(BatchLimit) # <<>>
    /\ batch' = all_games(BatchLimit)
    /\ pc' = "batch"
    /\ last' = [op |-> "fetch", gid |-> 0, path |-> "-"]
    /\ UNCHANGED <<games, scored, storeStats, storeGlobal, storeBlacklist, pcache,
                   gcache, blcache, aborts, counted,
                   capacity, latest, original>>

\* score_games: the fetch raising a store error.
FetchFails ==
    /\ pc = "loop"
    /\ aborts < MaxAborts
    /\ Abort("fetch", 0)
    /\ UNCHANGED <<games, scored, storeStats, storeGlobal, storeBlacklist, counted,
                   capacity, latest, original>>

\* Mutant: the achievements are replaced by the manual ones.
WithManual_Replaced(ach, m) == m

\* dict.update of the achievements with the manual ones.
WithManual(ach, m) ==
    [a \in DOMAIN ach \cup DOMAIN m |-> IF a \in DOMAIN m THEN m[a] ELSE ach[a]]

RECURSIVE ManualFrom(_, _)
\* add_manual_achievements from entry i on; cs = [c: cache, st: store table].
ManualFrom(cs, i) ==
    IF i > Len(MANUAL_ACHIEVEMENTS) THEN cs
    ELSE LET m == MANUAL_ACHIEVEMENTS[i]
             stats == LoadStats(cs.c, cs.st, m.player)
             c1 == CacheTouch(cs.c, m.player)
             stats1 == [stats EXCEPT !.achievements = WithManual(@, m.ach)]
         IN  IF stats.games = 0 THEN ManualFrom([c |-> c1, st |-> cs.st], i + 1)
             ELSE ManualFrom(SetPlayer([c |-> c1, st |-> cs.st], m.player, stats1),
                             i + 1)

add_manual_achievements == ManualFrom([c |-> pcache, st |-> storeStats], 1)

\* Mutant: the resident player entries are not written out.
FlushPlayers_Skipped(st, c, k) == st

RECURSIVE FlushPlayers(_, _, _)
\* for name, stats in PLAYER_STATS_CACHE.items(): the first k entries written.
FlushPlayers(st, c, k) ==
    IF k <= 0 \/ c = <<>> THEN st
    ELSE FlushPlayers([st EXCEPT ![c[1].k] = <<c[1].v>>], Tail(c), k - 1)

RECURSIVE FlushGlobal(_, _, _)
\* for key, data in GLOBAL_STATS_CACHE.items(): the first k entries written.
FlushGlobal(sg, c, k) ==
    IF k <= 0 \/ c = <<>> THEN sg
    ELSE FlushGlobal(WriteGlobal(sg, c[1].k, c[1].v), Tail(c), k - 1)

\* score_games after the loop, with the first k cache entries written out
\* (players first, then global stats).
FlushedStats(k) ==
    LET m == add_manual_achievements IN FlushPlayers(m.st, m.c, k)

FlushedGlobal(k) ==
    FlushGlobal(storeGlobal, gcache, k - Len(add_manual_achievements.c))

\* score_games: the fetch is empty; manual achievements, then everything left
\* in the caches is written out, and the process ends.
Finish ==
    /\ pc = "loop"
    /\ all_games(BatchLimit) = <<>>
    /\ storeStats' = FlushedStats(Len(add_manual_achievements.c))
    /\ storeGlobal' = FlushedGlobal(Len(add_manual_achievements.c) + Len(gcache))
    /\ Exit("finish", 0)
    /\ UNCHANGED <<games, scored, storeBlacklist, aborts, counted,
                   capacity, latest, original>>

\* score_games after the loop raising a store error: in
\* add_manual_achievements (k = -1), or at write k + 1 of the final write-out.
FinishFails(k) ==
    /\ pc = "loop"
    /\ aborts < MaxAborts
    /\ all_games(BatchLimit) = <<>>
    /\ k < Len(add_manual_achievements.c) + Len(gcache)
    /\ storeStats' = IF k < 0 THEN storeStats ELSE FlushedStats(k)
    /\ storeGlobal' = FlushedGlobal(k)
    /\ Abort("flush", 0)
    /\ UNCHANGED <<games, scored, storeBlacklist, counted,
                   capacity, latest, original>>

\* -------------------------------------------------------------- ingestion
\* What a game was like, apart from who played it, where and when.
Play(ktyp, dur, turn, sc, potions, scrolls, god, rc, bg, zig) ==
    [ktyp |-> ktyp, dur |-> dur, turn |-> turn, sc |-> sc,
     potionsused |-> potions, scrollsused |-> scrolls, god |-> god, rc |-> rc,
     bg |-> bg, zigdeepest |-> zig]

WinZin == Play("winning", 2000, 3000, 30, 1, 0, "Zin", "Hu", "Fi", 0)
WinTrog == Play("winning", 1800, 2800, 50, 0, 0, "Trog", "Mi", "Be", ZigCleared)
WinNoGod == Play("winning", 1900, 2900, 40, 0, 1, "", "Hu", "Be", 0)
QuickDeath == Play("dead", 100, 50, 1, 0, 0, "Zin", "Hu", "Fi", 0)
SlowDeath == Play("dead", 2000, 6000, 20, 1, 0, "Trog", "Mi", "Fi", 0)
Quit == Play("quitting", 700, 1200, 5, 0, 1, "", "Hu", "Be", 0)

\* The game rows the ingestion may record: [name, src, early, play].  An
\* early game is one that started before every other (a late-arriving log).
GameInputs ==
    {[name |-> "Foo", src |-> "cao", early |-> FALSE, play |-> p] :
        p \in {WinZin, WinTrog, WinNoGod, QuickDeath, SlowDeath, Quit}}
    \cup {[name |-> "Foo", src |-> "cbro", early |-> FALSE, play |-> p] :
             p \in {WinZin, QuickDeath}}
    \cup {[name |-> "Foo", src |-> "cao", early |-> TRUE, play |-> p] :
             p \in {WinZin, SlowDeath}}
    \cup {[name |-> "foo", src |-> "cao", early |-> FALSE, play |-> QuickDeath],
          [name |-> "Bot", src |-> "cao", early |-> FALSE, play |-> SlowDeath]}

\* The row of game number gid made from input x.
GameRow(x, gid) ==
    [name |-> x.name, src |-> x.src,
     start |-> IF x.early THEN 1 ELSE 10 * gid,
     end |-> IF x.early THEN 2 ELSE 10 * gid + 5,
     ktyp |-> x.play.ktyp, dur |-> x.play.dur, turn |-> x.play.turn,
     sc |-> x.play.sc, potionsused |-> x.play.potionsused,
     scrollsused |-> x.play.scrollsused, god |-> x.play.god, rc |-> x.play.rc,
     bg |-> x.play.bg, zigdeepest |-> x.play.zigdeepest]

\* The ingestion records one more finished game while no scoring runs.
Ingest ==
    /\ pc = "idle"
    /\ Len(games) < MaxGames
    /\ \E x \in GameInputs : games' = Append(games, GameRow(x, Len(games) + 1))
    /\ last' = [op |-> "ingest", gid |-> Len(games) + 1, path |-> "-"]
    /\ UNCHANGED <<scored, storeStats, storeGlobal, storeBlacklist, pcache, gcache,
                   blcache, pc, batch, aborts, counted,
                   capacity, latest, original>>

\* ------------------------------------------------------------ specification
\* No key was set yet.
NoSets ==
    [p |-> [n \in Names |-> <<>>],
     g |-> [active_streaks |-> <<>>, completed_streaks |-> <<>>]]

EmptyStore ==
    /\ scored = {}
    /\ storeStats = [n \in Names |-> <<>>]
    /\ storeGlobal = [active_streaks |-> <<>>, completed_streaks |-> <<>>]
    /\ storeBlacklist = <<>>
    /\ pcache = <<>>
    /\ gcache = <<>>
    /\ blcache = <<>>
    /\ pc = "idle"
    /\ batch = <<>>
    /\ aborts = 0
    /\ counted = [n \in Names |-> 0]
    /\ last = [op |-> "init", gid |-> 0, path |-> "-"]
    /\ capacity = [player |-> PlayerCacheCap, global |-> GlobalCacheCap]
    /\ latest = NoSets
    /\ original = <<>>

Init ==
    /\ games = <<>>
    /\ EmptyStore

Pipeline ==
    \/ StartRun
    \/ Fetch
    \/ FetchFails
    \/ ScoreBlacklisted
    \/ ScoreGame
    \/ \E f \in {"early", "evict", "mark"} : ScoreGameFails(f)
    \/ ScoreGameKeyError
    \/ Finish
    \/ \E k \in -1..(PlayerCacheCap + GlobalCacheCap) : FinishFails(k)

Next == Ingest \/ Pipeline

Spec == Init /\ [][Next]_vars

\* ------------------------------------------- streak-breaking scenarios
\* The two wins of the end-to-end scenario: Foo on cao, Zin, Hu, Fi.
FirstWin == Play("winning", 2000, 3000, 30, 1, 0, "Zin", "Hu", "Fi", 0)
SecondWin == Play("winning", 1800, 2800, 50, 0, 1, "Zin", "Hu", "Fi", 0)

ScenarioWins ==
    <<GameRow([name |-> "Foo", src |-> "cao", early |-> FALSE, play |-> FirstWin], 1),
      GameRow([name |-> "Foo", src |-> "cao", early |-> FALSE, play |-> SecondWin], 2)>>

\* The loss that follows the two wins: every side of every threshold, with
\* and without consumables, with the payload field present or not, on the
\* server of the wins or on one where the player never played; and the loss
\* of the end-to-end scenario (100 s, 50 turns, no consumables).
BreakingLosses ==
    {[name |-> "Foo", src |-> s, early |-> FALSE,
      play |-> Play("dead", d, t, 1, c[1], c[2], "Zin", "Hu", "Fi", 0)] :
        s \in {"cao", "cbro"},
        d \in {500, 599, 600, 700, 1199, 1200},
        t \in {999, 1000, 4999, 5000},
        c \in {<<0, 0>>, <<1, 0>>, <<0, 1>>, <<Missing, 0>>}}
    \cup {[name |-> "Foo", src |-> s, early |-> FALSE, play |-> QuickDeath] :
             s \in {"cao", "cbro"}}

\* A short death after a potion was drunk.
PotionDeath == Play("dead", 500, 1000, 1, 1, 0, "Zin", "Hu", "Fi", 0)

\* The game after that loss.
FollowUps ==
    {[name |-> "Foo", src |-> s, early |-> FALSE, play |-> QuickDeath] :
        s \in {"cbro", "cdo"}}
    \cup {[name |-> "Foo", src |-> "cao", early |-> FALSE, play |-> WinZin],
          [name |-> "foo", src |-> "cdo", early |-> FALSE, play |-> SlowDeath],
          [name |-> "Foo", src |-> "cdo", early |-> FALSE, play |-> PotionDeath]}

\* The ingestion records the breaking loss, then follow-up games.
IngestGrief ==
    /\ pc = "idle"
    /\ Len(games) < MaxGriefGames
    /\ \E x \in IF Len(games) = 2 THEN BreakingLosses ELSE FollowUps :
           games' = Append(games, GameRow(x, Len(games) + 1))
    /\ last' = [op |-> "ingest", gid |-> Len(games) + 1, path |-> "-"]
    /\ UNCHANGED <<scored, storeStats, storeGlobal, storeBlacklist, pcache, gcache,
                   blcache, pc, batch, aborts, counted,
                   capacity, latest, original>>

InitGrief ==
    /\ games = ScenarioWins
    /\ EmptyStore

NextGrief == IngestGrief \/ Pipeline

SpecGrief == InitGrief /\ [][NextGrief]_vars

\* ------------------------------------------------- the caches by themselves
\* Clients of the two stats caches: loads and sets of any key in any order,
\* on caches of any capacity from 1 to MaxCap.
MaxCap == 2

MaxValue == 2

\* A PlayerStats value and a streak told apart by v.
StatsOf(v) == [InitialStats EXCEPT !.games = v]

StreakOf(v) ==
    [cname |-> "foo", wins |-> <<v>>, start |-> v, end |-> v, streak_breaker |-> 0]

GlobalOf(k, v) ==
    IF k = "active_streaks"
    THEN GActive([NoStreaks EXCEPT !["foo"] = <<StreakOf(v)>>])
    ELSE GCompleted(<<StreakOf(v)>>)

\* load_player_stats(name)
LoadPlayer(n) ==
    /\ pc = "cache"
    /\ pcache' = CacheTouch(pcache, n)
    /\ last' = [op |-> "load", gid |-> 0, path |-> n]
    /\ UNCHANGED <<games, scored, storeStats, storeGlobal, storeBlacklist, gcache,
                   blcache, pc, batch, aborts, counted, capacity, latest, original>>

\* set_player_stats(name, stats)
StorePlayer(n, v) ==
    /\ pc = "cache"
    /\ LET r == SetPlayer([c |-> pcache, st |-> storeStats], n, StatsOf(v))
       IN  pcache' = r.c /\ storeStats' = r.st
    /\ latest' = [latest EXCEPT !.p[n] = <<StatsOf(v)>>]
    /\ last' = [op |-> "set", gid |-> 0, path |-> n]
    /\ UNCHANGED <<games, scored, storeGlobal, storeBlacklist, gcache, blcache, pc,
                   batch, aborts, counted, capacity, original>>

\* load_global_stat(key)
LoadGlobalStat(k) ==
    /\ pc = "cache"
    /\ gcache' = CacheTouch(gcache, k)
    /\ last' = [op |-> "load", gid |-> 0, path |-> k]
    /\ UNCHANGED <<games, scored, storeStats, storeGlobal, storeBlacklist, pcache,
                   blcache, pc, batch, aborts, counted, capacity, latest, original>>

\* set_global_stat(key, data)
StoreGlobalStat(k, v) ==
    /\ pc = "cache"
    /\ LET r == SetGlobal([c |-> gcache, sg |-> storeGlobal], k, GlobalOf(k, v))
       IN  gcache' = r.c /\ storeGlobal' = r.sg
    /\ latest' = [latest EXCEPT !.g[k] = <<GlobalOf(k, v)>>]
    /\ last' = [op |-> "set", gid |-> 0, path |-> k]
    /\ UNCHANGED <<games, scored, storeStats, storeBlacklist, pcache, blcache, pc,
                   batch, aborts, counted, capacity, original>>

InitCache ==
    /\ games = <<>>
    /\ scored = {}
    /\ storeStats = [n \in Names |-> <<>>]
    /\ storeGlobal = [active_streaks |-> <<>>, completed_streaks |-> <<>>]
    /\ storeBlacklist = <<>>
    /\ pcache = <<>>
    /\ gcache = <<>>
    /\ blcache = <<>>
    /\ pc = "cache"
    /\ batch = <<>>
    /\ aborts = 0
    /\ counted = [n \in Names |-> 0]
    /\ last = [op |-> "init", gid |-> 0, path |-> "-"]
    /\ capacity \in [player : 1..MaxCap, global : 1..MaxCap]
    /\ latest = NoSets
    /\ original = <<>>

NextCache ==
    \/ \E n \in Names : LoadPlayer(n)
    \/ \E n \in Names, v \in 1..MaxValue : StorePlayer(n, v)
    \/ \E k \in {"active_streaks", "completed_streaks"} : LoadGlobalStat(k)
    \/ \E k \in {"active_streaks", "completed_streaks"}, v \in 1..MaxValue :
           StoreGlobalStat(k, v)

SpecCache == InitCache /\ [][NextCache]_vars

\* ------------------------------------------------------------ full rebuild
\* rebuild_database(): every game unscored, all player stats and all global
\* stats deleted.  The blacklist table is not touched.
rebuild_database ==
    /\ scored' = {}
    /\ storeStats' = [n \in Names |-> <<>>]
    /\ storeGlobal' = [active_streaks |-> <<>>, completed_streaks |-> <<>>]
    /\ UNCHANGED storeBlacklist

\* A new process calls score_games(rebuild=True) on a store whose games were
\* all scored before: load_blacklisted_players(), then rebuild_database().
StartRebuild ==
    /\ pc = "idle"
    /\ original = <<>>
    /\ games # <<>>
    /\ scored = 1..Len(games)
    /\ pc' = "loop"
    /\ blcache' = load_blacklisted_players(<<>>, storeBlacklist)
    /\ rebuild_database
    /\ original' = <<[st |-> storeStats, sg |-> storeGlobal]>>
    /\ counted' = [n \in Names |-> 0]
    /\ last' = [op |-> "rebuild", gid |-> 0, path |-> "-"]
    /\ UNCHANGED <<games, pcache, gcache, batch, aborts, capacity, latest>>

\* Games are recorded until the rebuild.
IngestBefore == original = <<>> /\ Ingest

NextRebuild == IngestBefore \/ Pipeline \/ StartRebuild

SpecRebuild == Init /\ [][NextRebuild]_vars

\* ------------------------------------------------------ rescore_player
\* model.delete_player_streaks(player): the streaks of the player leave the
\* streak collections of the store.
delete_player_streaks(sg, n) ==
    [active_streaks |->
         IF sg.active_streaks = <<>> THEN <<>>
         ELSE <<[sg.active_streaks[1] EXCEPT ![Lower[n]] = <<>>]>>,
     completed_streaks |->
         IF sg.completed_streaks = <<>> THEN <<>>
         ELSE <<SelectSeq(sg.completed_streaks[1],
                          LAMBDA sk : sk.cname # Lower[n])>>]

\* model.unscore_all_games_of_player(player)
unscore_all_games_of_player(sc, n) == {gid \in sc : games[gid].name # n}

\* Mutant: there is no except clause, the store error reaches the caller.
RescoreOutcome_Propagates(k) == IF k < 3 THEN "raised" ELSE "returned"

\* rescore_player: how the call ends when k of its three store operations
\* succeed and the next one, if any, raises model.DatabaseError: the except
\* clause prints the error and the function returns.
RescoreOutcome(k) == "returned"

\* rescore_player(player), called between runs, with k of the three store
\* operations done.
RescorePlayer(n, k) ==
    /\ pc = "idle"
    /\ games # <<>>
    /\ storeGlobal' = IF k >= 1 THEN delete_player_streaks(storeGlobal, n)
                      ELSE storeGlobal
    /\ storeStats' = IF k >= 2 THEN [storeStats EXCEPT ![n] = <<>>] ELSE storeStats
    /\ scored' = IF k >= 3 THEN unscore_all_games_of_player(scored, n) ELSE scored
    /\ counted' = IF k >= 3 THEN [counted EXCEPT ![n] = 0] ELSE counted
    /\ aborts' = IF RescoreOutcome(k) = "raised" THEN Min(aborts + 1, MaxAborts)
                 ELSE aborts
    /\ last' = [op |-> "rescore", gid |-> k, path |-> n]
    /\ UNCHANGED <<games, storeBlacklist, pcache, gcache, blcache, pc, batch,
                   capacity, latest, original>>

NextRescore ==
    \/ Ingest
    \/ Pipeline
    \/ \E n \in Names, k \in 0..3 : RescorePlayer(n, k)

SpecRescore == Init /\ [][NextRescore]_vars

\* ------------------------------------------------- out-of-order games
\* Number of games in the store when logs arrive out of order.
MaxOrderGames == 3

\* The first win of Foo: it starts at 10 and ends at 15, the recorded start of
\* the streak it opens.
OrderFirstWin ==
    GameRow([name |-> "Foo", src |-> "cao", early |-> FALSE, play |-> WinZin], 1)

\* Start times of the later games: before, at and after that recorded start,
\* and after the end of a second game.
OrderStarts == {14, 15, 16, 30}

OrderInputs ==
    {[name |-> "Foo", src |-> "cao", early |-> FALSE, play |-> p] :
        p \in {WinZin, WinTrog, WinNoGod, SlowDeath}}
    \cup {[name |-> "Foo", src |-> "cbro", early |-> FALSE, play |-> QuickDeath],
          [name |-> "foo", src |-> "cao", early |-> FALSE, play |-> QuickDeath],
          [name |-> "Bot", src |-> "cao", early |-> FALSE, play |-> SlowDeath]}

\* The row of input x for a game that started at t and lasted 5.
TimedRow(x, t) == [GameRow(x, 1) EXCEPT !.start = t, !.end = t + 5]

\* The ingestion records a game whose log arrived in any order.
IngestOrder ==
    /\ pc = "idle"
    /\ Len(games) < MaxOrderGames
    /\ \E x \in OrderInputs, t \in OrderStarts : games' = Append(games, TimedRow(x, t))
    /\ last' = [op |-> "ingest", gid |-> Len(games) + 1, path |-> "-"]
    /\ UNCHANGED <<scored, storeStats, storeGlobal, storeBlacklist, pcache, gcache,
                   blcache, pc, batch, aborts, counted,
                   capacity, latest, original>>

InitOrder ==
    /\ games = <<OrderFirstWin>>
    /\ EmptyStore

NextOrder == IngestOrder \/ Pipeline

SpecOrder == InitOrder /\ [][NextOrder]_vars

\* ------------------------------------------------- streak after streak
\* Number of games in the store when a player goes through several streaks.
MaxStreakGames == 6

\* Two wins and the loss that ends the streak.
FirstStreak ==
    Append(ScenarioWins,
           GameRow([name |-> "Foo", src |-> "cao", early |-> FALSE, play |-> SlowDeath], 3))

\* The games after it: wins and losses of the same player under both
\* capitalisations, a win without a god and a game of a bot.
StreakInputs ==
    {[name |-> "Foo", src |-> "cao", early |-> FALSE, play |-> p] :
        p \in {WinZin, SlowDeath, WinNoGod}}
    \cup {[name |-> "foo", src |-> "cao", early |-> FALSE, play |-> WinTrog],
          [name |-> "Bot", src |-> "cao", early |-> FALSE, play |-> SlowDeath]}

IngestStreaks ==
    /\ pc = "idle"
    /\ Len(games) < MaxStreakGames
    /\ \E x \in StreakInputs : games' = Append(games, GameRow(x, Len(games) + 1))
    /\ last' = [op |-> "ingest", gid |-> Len(games) + 1, path |-> "-"]
    /\ UNCHANGED <<scored, storeStats, storeGlobal, storeBlacklist, pcache, gcache,
                   blcache, pc, batch, aborts, counted,
                   capacity, latest, original>>

InitStreaks ==
    /\ games = FirstStreak
    /\ EmptyStore

NextStreaks == IngestStreaks \/ Pipeline

SpecStreaks == InitStreaks /\ [][NextStreaks]_vars

\* ------------------------------------------------- wins of every kind
\* Number of games in the store when a player collects achievements.
MaxAchGames == 3

\* A win with the given god, race and role.
WinAs(god, rc, bg) == Play("winning", 2000, 3000, 30, 1, 0, god, rc, bg, 0)

\* Wins over the playable races and roles with one god or the other, a win
\* as a role that is no longer playable, a win without a god, a loss, a game
\* of another player and a game of a bot.
AchInputs ==
    {[name |-> "Foo", src |-> "cao", early |-> FALSE, play |-> p] :
        p \in {WinAs("Zin", "Hu", "Fi"), WinAs("Trog", "Hu", "Be"),
               WinAs("Zin", "Mi", "Fi"), WinAs("Trog", "Mi", "Be"),
               WinAs("Zin", "Hu", "DK"), WinNoGod, SlowDeath}}
    \cup {[name |-> "foo", src |-> "cao", early |-> FALSE, play |-> SlowDeath],
          [name |-> "Bot", src |-> "cao", early |-> FALSE, play |-> SlowDeath]}

IngestAch ==
    /\ pc = "idle"
    /\ Len(games) < MaxAchGames
    /\ \E x \in AchInputs : games' = Append(games, GameRow(x, Len(games) + 1))
    /\ last' = [op |-> "ingest", gid |-> Len(games) + 1, path |-> "-"]
    /\ UNCHANGED <<scored, storeStats, storeGlobal, storeBlacklist, pcache, gcache,
                   blcache, pc, batch, aborts, counted,
                   capacity, latest, original>>

NextAch == IngestAch \/ Pipeline

SpecAch == Init /\ [][NextAch]_vars

\* ------------------------------------------------- runs without store errors
\* The steps of a run when every store call succeeds.
RunStep ==
    \/ Fetch
    \/ ScoreBlacklisted
    \/ ScoreGame
    \/ ScoreGameKeyError
    \/ Finish

NextQuiet == Ingest \/ StartRun \/ RunStep

SpecQuiet == Init /\ [][NextQuiet]_vars

\* ------------------------------------------------- what the claims speak of
\* Every PlayerStats aggregate there is: in the store or in the cache.
AllStats ==
    {storeStats[n][1] : n \in {m \in Names : storeStats[m] # <<>>}}
    \cup {pcache[i].v : i \in 1..Len(pcache)}

\* Every active-streak map there is, and every streak in one.
AllActiveMaps ==
    {storeGlobal.active_streaks[i] : i \in 1..Len(storeGlobal.active_streaks)}
    \cup {gcache[i].v.m : i \in {j \in 1..Len(gcache) : gcache[j].k = "active_streaks"}}

AllActiveStreaks ==
    UNION {{m[c][1] : c \in {d \in CNames : m[d] # <<>>}} : m \in AllActiveMaps}

\* Every completed-streak list there is, and every streak in one.
AllCompletedLists ==
    {storeGlobal.completed_streaks[i] : i \in 1..Len(storeGlobal.completed_streaks)}
    \cup {gcache[i].v.s :
             i \in {j \in 1..Len(gcache) : gcache[j].k = "completed_streaks"}}

AllCompletedStreaks == UNION {Range(l) : l \in AllCompletedLists}

\* What a reader of the aggregates sees: the cached value, else the stored one.
StatsView(n) ==
    IF \E i \in 1..Len(pcache) : pcache[i].k = n
    THEN pcache[CHOOSE i \in 1..Len(pcache) : pcache[i].k = n].v
    ELSE IF storeStats[n] # <<>> THEN storeStats[n][1] ELSE InitialStats

ActiveView ==
    IF \E i \in 1..Len(gcache) : gcache[i].k = "active_streaks"
    THEN gcache[CHOOSE i \in 1..Len(gcache) : gcache[i].k = "active_streaks"].v.m
    ELSE IF storeGlobal.active_streaks # <<>> THEN storeGlobal.active_streaks[1]
    ELSE NoStreaks

CompletedView ==
    IF \E i \in 1..Len(gcache) : gcache[i].k = "completed_streaks"
    THEN gcache[CHOOSE i \in 1..Len(gcache) : gcache[i].k = "completed_streaks"].v.s
    ELSE IF storeGlobal.completed_streaks # <<>>
    THEN storeGlobal.completed_streaks[1] ELSE <<>>

ScoreOf == [i \in 1..Len(games) |-> games[i].sc]

DurOf == [i \in 1..Len(games) |-> games[i].dur]

WinsIn(s) == SelectSeq(s, LAMBDA i : games[i].ktyp = "winning")

\* The game is the first one its player has on its server.
FirstOnServer(gid) ==
    \A j \in 1..(gid - 1) :
        ~(games[j].name = games[gid].name /\ games[j].src = games[gid].src)

\* The pair is flagged by the guard: static bot, static griefer, or learned.
Flagged(c, name, src) ==
    \/ name \in BLACKLISTS.bots
    \/ <<name, src>> \in BLACKLISTS.griefers
    \/ \E i \in 1..Len(c) : c[i].k = name /\ \E j \in 1..Len(c[i].v) : c[i].v[j] = src

\* This step is score_game returning for the game at the head of the batch.
Scores(gid) ==
    pc = "batch" /\ Head(batch) = gid /\ last'.op = "score" /\ last'.gid = gid

\* ------------------------------------------------------------------ claims
\* C1: a scored game is never selected again, and in every aggregate, in the
\* store or in a cache, across runs and re-runs after an abort, no game is
\* absorbed twice: games, wins, total_score and total_playtime are those of
\* distinct games, and no game occurs twice in the wins of a streak.
C1_Idempotence ==
    /\ \A i \in 1..Len(batch) : batch[i] \notin scored
    /\ \A st \in AllStats :
           /\ NoDup(st.contrib)
           /\ st.games = Len(st.contrib)
           /\ st.wins = WinsIn(st.contrib)
           /\ st.total_score = SumOver(st.contrib, ScoreOf, 1)
           /\ st.total_playtime = SumOver(st.contrib, DurOf, 1)
    /\ \A sk \in AllActiveStreaks \cup AllCompletedStreaks : NoDup(sk.wins)

\* C1 witness: after an aborted run, a later run has finished with every game
\* scored and an aggregate of at least two games in the store.
C1_Witness ==
    /\ aborts > 0
    /\ pc = "idle"
    /\ last.op = "finish"
    /\ scored = 1..Len(games)
    /\ \E n \in Names : storeStats[n] # <<>> /\ storeStats[n][1].games >= 2

\* C2: every aggregate with at least one game has winrate = len(wins)/games,
\* avg_score = total_score/games and boring_rate = boring_games/games, and
\* right after a game was scored the total_score of its player includes it.
C2_Rates ==
    /\ \A st \in AllStats :
           st.games > 0 =>
               /\ SameRate(st.winrate, Rate(Len(st.wins), st.games))
               /\ SameRate(st.avg_score, Rate(st.total_score, st.games))
               /\ SameRate(st.boring_rate, Rate(st.boring_games, st.games))
    /\ (last.op = "score" /\ last.path # "blacklisted") =>
           LET st == StatsView(games[last.gid].name)
           IN  /\ st.contrib[Len(st.contrib)] = last.gid
               /\ st.total_score = SumOver(st.contrib, ScoreOf, 1)
               /\ SameRate(st.avg_score, Rate(st.total_score, st.games))

\* C2 witness: a player with a win and a quit among at least three games, the
\* last one just scored.
C2_Witness ==
    /\ last.op = "score"
    /\ last.path # "blacklisted"
    /\ LET st == StatsView(games[last.gid].name)
       IN  st.games >= 3 /\ Len(st.wins) >= 1 /\ st.boring_games >= 1
           /\ st.total_score > 0

\* C3: as long as no run was aborted, the games field of every player is the
\* number of the player's games scored while the pair was not blacklisted.
C3_GamesCount ==
    aborts = 0 => \A n \in Names : StatsView(n).games = counted[n]

\* C3 witness: a loss flagged as a grief has just been scored and is the third
\* game counted for its player.
C3_Witness ==
    /\ aborts = 0
    /\ last.op = "score"
    /\ last.path = "grief"
    /\ counted[games[last.gid].name] = 3
    /\ StatsView(games[last.gid].name).games = 3

\* C4: when score_game returns for a game whose (name, src) is blacklisted,
\* the game is marked scored and no PlayerStats entry (cache or store), no
\* streak collection and no blacklist entry is created or modified.
C4_BlacklistGating ==
    [][\A gid \in 1..Len(games) :
           (Scores(gid) /\ Flagged(blcache, games[gid].name, games[gid].src)) =>
               /\ gid \in scored'
               /\ storeStats' = storeStats
               /\ pcache' = pcache
               /\ storeGlobal' = storeGlobal
               /\ gcache' = gcache
               /\ storeBlacklist' = storeBlacklist]_vars

\* C4 witness: a game of a pair that was learned through grief detection has
\* just been marked scored while its player has an aggregate and a streak.
C4_Witness ==
    /\ last.op = "score"
    /\ last.path = "blacklisted"
    /\ last.gid \in scored
    /\ <<games[last.gid].name, games[last.gid].src>> \in Range(storeBlacklist)
    /\ AllStats # {}
    /\ ActiveView[Lower[games[last.gid].name]] # <<>>

\* C5: every completed streak, in the store or in the cache, has at least two
\* wins and a streak_breaker that is the id of a game that was not won.
C5_CompletedStreaks ==
    \A sk \in AllCompletedStreaks :
        /\ Len(sk.wins) >= 2
        /\ sk.streak_breaker \in 1..Len(games)
        /\ games[sk.streak_breaker].ktyp # "winning"

\* C5 witness: a completed streak has reached the store, and a one-win streak
\* was ended by a loss as well.
C5_Witness ==
    /\ storeGlobal.completed_streaks # <<>>
    /\ Len(storeGlobal.completed_streaks[1]) >= 1
    /\ Len(games) >= 3

\* C7: when a valid loss that is not flagged as a grief is scored for a player
\* whose active streak has at least two wins, the streak, with streak_breaker
\* set to the loss, becomes the last element of completed_streaks and the
\* player's lowercased name has no active streak any more.
C7_Finalize ==
    [][\A gid \in 1..Len(games) :
           LET g == games[gid]
               sk == ActiveView[Lower[g.name]]
           IN  (/\ Scores(gid)
                /\ ~Flagged(blcache, g.name, g.src)
                /\ g.ktyp # "winning"
                /\ sk # <<>>
                /\ Len(sk[1].wins) >= 2
                /\ g.start > sk[1].start
                /\ ~is_grief(gid)) =>
                   /\ CompletedView' =
                          Append(CompletedView, [sk[1] EXCEPT !.streak_breaker = gid])
                   /\ ActiveView'[Lower[g.name]] = <<>>]_vars

\* C7 witness: a streak has just been finalised by a loss.
C7_Witness ==
    /\ last.op = "score"
    /\ last.path = "finalize"
    /\ ActiveView[Lower[games[last.gid].name]] = <<>>
    /\ CompletedView # <<>>

\* The preconditions of the streak-ending branch: score_game handles a loss
\* that is a valid addition to an active streak of at least two wins.
EndsStreak(gid) ==
    LET g == games[gid]
        sk == ActiveView[Lower[g.name]]
    IN  /\ Scores(gid)
        /\ ~Flagged(blcache, g.name, g.src)
        /\ g.ktyp # "winning"
        /\ sk # <<>>
        /\ Len(sk[1].wins) >= 2
        /\ g.start > sk[1].start

\* The thresholds as the text gives them.
BelowThresholds(g) ==
    IF g.potionsused > 0 \/ g.scrollsused > 0
    THEN g.dur < 600 \/ g.turn < 1000
    ELSE g.dur < 1200 \/ g.turn < 5000

\* C6: when a loss flagged as a grief is scored for a player whose active
\* streak has at least two wins, the active streaks and the completed streaks
\* are exactly as before, and the pair (name, server of the loss) is flagged
\* by the in-memory blacklist and is in the persistent blacklist.
C6_GriefBranch ==
    [][\A gid \in 1..Len(games) :
           (EndsStreak(gid) /\ last'.path = "grief") =>
               /\ ActiveView' = ActiveView
               /\ CompletedView' = CompletedView
               /\ Flagged(blcache', games[gid].name, games[gid].src)
               /\ <<games[gid].name, games[gid].src>> \in Range(storeBlacklist')]_vars

\* C6: the part of the branch that the code keeps: streak collections as
\* before and the pair in the persistent blacklist.
C6_GriefBranchDurable ==
    [][\A gid \in 1..Len(games) :
           (EndsStreak(gid) /\ last'.path = "grief") =>
               /\ ActiveView' = ActiveView
               /\ CompletedView' = CompletedView
               /\ <<games[gid].name, games[gid].src>> \in Range(storeBlacklist')]_vars

C9_GriefThresholds ==
    [][\A gid \in 1..Len(games) :
           LET g == games[gid]
               sk == ActiveView[Lower[g.name]]
           IN  (EndsStreak(gid) /\ FirstOnServer(gid)) =>
                   /\ (last'.path = "grief") <=> BelowThresholds(g)
                   /\ (g.dur = 500 /\ g.potionsused = 1) =>
                          /\ last'.path = "grief"
                          /\ ActiveView' = ActiveView
                          /\ Flagged(blcache', g.name, g.src)
                          /\ <<g.name, g.src>> \in Range(storeBlacklist')
                   /\ (g.dur = 700 /\ g.potionsused = 1 /\ g.turn >= 1000) =>
                          /\ last'.path = "finalize"
                          /\ ActiveView'[Lower[g.name]] = <<>>
                          /\ CompletedView' =
                                 Append(CompletedView,
                                        [sk[1] EXCEPT !.streak_breaker = gid])]_vars

\* C9: the thresholds and the two examples, the pair being looked up in the
\* persistent blacklist only.
C9_GriefThresholdsDurable ==
    [][\A gid \in 1..Len(games) :
           LET g == games[gid]
           IN  (EndsStreak(gid) /\ FirstOnServer(gid)) =>
                   /\ (last'.path = "grief") <=> BelowThresholds(g)
                   /\ (g.dur = 500 /\ g.potionsused = 1) =>
                          /\ last'.path = "grief"
                          /\ ActiveView' = ActiveView
                          /\ <<g.name, g.src>> \in Range(storeBlacklist')
                   /\ (g.dur = 700 /\ g.potionsused = 1 /\ g.turn >= 1000) =>
                          /\ last'.path = "finalize"
                          /\ ActiveView'[Lower[g.name]] = <<>>]_vars

\* The end-to-end scenario: Foo on cao wins twice and then dies after 100 s
\* and 50 turns without consumables; the three games have been processed by
\* runs that were not aborted.
ScenarioDone ==
    /\ games = Append(ScenarioWins,
                      GameRow([name |-> "Foo", src |-> "cao", early |-> FALSE,
                               play |-> QuickDeath], 3))
    /\ scored = {1, 2, 3}
    /\ aborts = 0

C11_MarkScoredLast ==
    [][\A gid \in 1..Len(games) :
           LET g == games[gid]
           IN  (/\ pc = "batch"
                /\ Head(batch) = gid
                /\ ~Flagged(blcache, g.name, g.src)) =>
                   /\ last'.op \in {"early", "evict", "mark"} =>
                          /\ gid \notin scored'
                          /\ pc' = "idle"
                          /\ aborts' > aborts
                          /\ \E i \in 1..Len(Unscored') : Unscored'[i] = gid
                   /\ gid \in scored' =>
                          /\ last'.op = "score"
                          /\ CacheHas(pcache', g.name)
                          /\ CacheVal(pcache', g.name).games =
                                 StatsView(g.name).games + 1
                          /\ ActiveView' = ActiveAfter(gid, ActiveView)]_vars

\* C11 witness: the final mark_game_scored of a game failed, the run is over,
\* the game is still unscored and another player has a stored aggregate.
C11_Witness ==
    /\ last.op = "mark"
    /\ last.gid \notin scored
    /\ pc = "idle"
    /\ \E n \in Names : storeStats[n] # <<>> /\ n # games[last.gid].name

\* C12: for both stats caches, of any capacity, after any sequence of loads
\* and sets the value a load of a key observes (the resident value, else the
\* stored one, else the default) is the value most recently set for the key;
\* and a key that was set and is not resident has that value in the store.
C12_CacheCoherence ==
    /\ \A n \in Names :
           /\ LoadStats(pcache, storeStats, n) =
                  IF latest.p[n] = <<>> THEN InitialStats ELSE latest.p[n][1]
           /\ (latest.p[n] # <<>> /\ ~CacheHas(pcache, n)) =>
                  storeStats[n] = latest.p[n]
    /\ LoadActive(gcache, storeGlobal) =
           IF latest.g.active_streaks = <<>> THEN NoStreaks
           ELSE latest.g.active_streaks[1].m
    /\ LoadCompleted(gcache, storeGlobal) =
           IF latest.g.completed_streaks = <<>> THEN <<>>
           ELSE latest.g.completed_streaks[1].s
    /\ \A k \in {"active_streaks", "completed_streaks"} :
           (latest.g[k] # <<>> /\ ~CacheHas(gcache, k)) =>
               storeGlobal[k] # <<>>

\* C12 witness: both caches have capacity 1; a player key that was set twice
\* has been pushed out and its load has just been served from the store,
\* while a global key has been pushed out as well.
C12_Witness ==
    /\ pc = "cache"
    /\ capacity = [player |-> 1, global |-> 1]
    /\ last.op = "load"
    /\ last.path \in Names
    /\ ~CacheHas(pcache, last.path)
    /\ latest.p[last.path] = <<StatsOf(2)>>
    /\ storeStats[last.path] = <<StatsOf(2)>>
    /\ \E k \in {"active_streaks", "completed_streaks"} :
           latest.g[k] # <<>> /\ ~CacheHas(gcache, k)

\* The manual achievements of a player, as the static table gives them.
ManualIds(n) ==
    UNION {DOMAIN MANUAL_ACHIEVEMENTS[i].ach :
              i \in {j \in 1..Len(MANUAL_ACHIEVEMENTS) :
                        MANUAL_ACHIEVEMENTS[j].player = n}}

ManualValue(n, a) ==
    MANUAL_ACHIEVEMENTS[CHOOSE i \in 1..Len(MANUAL_ACHIEVEMENTS) :
                            /\ MANUAL_ACHIEVEMENTS[i].player = n
                            /\ a \in DOMAIN MANUAL_ACHIEVEMENTS[i].ach].ach[a]

\* The final aggregate of a player: what the run computed, with the manual
\* achievements of the player.
FinalStats(n) ==
    [StatsView(n) EXCEPT
        !.achievements =
            [a \in DOMAIN StatsView(n).achievements \cup ManualIds(n) |->
                IF a \in ManualIds(n) THEN ManualValue(n, a)
                ELSE StatsView(n).achievements[a]]]

\* C13: when score_games returns normally, the store holds for every player
\* with an aggregate, evicted earlier or still resident, exactly the final
\* aggregate of the run, and for active_streaks and completed_streaks exactly
\* the final collections of the run.
C13_FinalFlush ==
    [][(pc = "loop" /\ last'.op = "finish") =>
           /\ \A n \in Names :
                  IF StatsView(n).games > 0
                  THEN storeStats'[n] = <<FinalStats(n)>>
                  ELSE storeStats'[n] = <<>>
           /\ \/ storeGlobal'.active_streaks = <<ActiveView>>
              \/ /\ storeGlobal'.active_streaks = <<>>
                 /\ ~CacheHas(gcache, "active_streaks")
                 /\ storeGlobal.active_streaks = <<>>
           /\ \/ storeGlobal'.completed_streaks = <<CompletedView>>
              \/ /\ storeGlobal'.completed_streaks = <<>>
                 /\ ~CacheHas(gcache, "completed_streaks")
                 /\ storeGlobal.completed_streaks = <<>>]_vars

\* C13 witness: a run without a failure has returned; two players, one of
\* them pushed out of the cache during the run, have their aggregates in the
\* store, with the streak they share and the manual achievement.
C13_Witness ==
    /\ aborts = 0
    /\ pc = "idle"
    /\ last.op = "finish"
    /\ scored = 1..Len(games)
    /\ storeStats["Foo"] # <<>>
    /\ storeStats["foo"] # <<>>
    /\ "comborobin" \in DOMAIN storeStats["Foo"][1].achievements
    /\ storeGlobal.active_streaks # <<>>
    /\ storeGlobal.active_streaks[1]["foo"] # <<>>

Servers == {"cao", "cbro", "cdo"}

\* C14: after blacklist_player(name, src), called when a loss is flagged as a
\* grief, is_blacklisted(name, src) is true whatever the in-memory entry of
\* the name was before (absent, holding another server, holding the same
\* server), and every pair that was flagged before is still flagged.
C14_BlacklistAdd ==
    [][\A gid \in 1..Len(games) :
           (Scores(gid) /\ last'.path = "grief") =>
               /\ Flagged(blcache', games[gid].name, games[gid].src)
               /\ \A n \in Names, s \in Servers :
                      Flagged(blcache, n, s) => Flagged(blcache', n, s)]_vars

\* C14: what holds of the add: a pair added to a name without an in-memory
\* entry is flagged, pairs flagged before stay flagged, and the pair is in
\* the persistent blacklist.
C14_BlacklistAddFirst ==
    [][\A gid \in 1..Len(games) :
           (Scores(gid) /\ last'.path = "grief") =>
               /\ ~CacheHas(blcache, games[gid].name) =>
                      Flagged(blcache', games[gid].name, games[gid].src)
               /\ \A n \in Names, s \in Servers :
                      Flagged(blcache, n, s) => Flagged(blcache', n, s)
               /\ <<games[gid].name, games[gid].src>> \in Range(storeBlacklist')]_vars

\* C15: when score_games has run load_blacklisted_players, every pair of the
\* persistent blacklist is flagged by is_blacklisted, whatever the number of
\* names and of servers per name, and stays flagged during the run: a pair
\* learned in one run is gated in every later run.
C15_BlacklistPreload ==
    [][/\ last'.op = "start" =>
              \A i \in 1..Len(storeBlacklist) :
                  Flagged(blcache', storeBlacklist[i][1], storeBlacklist[i][2])
       /\ (pc \in {"loop", "batch"} /\ pc' \in {"loop", "batch"}) =>
              \A n \in Names, s \in Servers :
                  Flagged(blcache, n, s) => Flagged(blcache', n, s)]_vars

\* C15: what holds of the preload: the first stored pair of every name is
\* flagged, and pairs flagged during a run stay flagged.
C15_BlacklistPreloadFirst ==
    [][/\ last'.op = "start" =>
              \A i \in 1..Len(storeBlacklist) :
                  (\A j \in 1..(i - 1) : storeBlacklist[j][1] # storeBlacklist[i][1])
                      => Flagged(blcache', storeBlacklist[i][1], storeBlacklist[i][2])
       /\ (pc \in {"loop", "batch"} /\ pc' \in {"loop", "batch"}) =>
              \A n \in Names, s \in Servers :
                  Flagged(blcache, n, s) => Flagged(blcache', n, s)]_vars

\* The achievements that count; the others are flags.
Counters == {"no_potion_or_scroll_win", "cleared_zig"}

\* From collection a to collection b no achievement is lost, a flag stays
\* set and a counter does not decrease.
NothingRevoked(a, b) ==
    /\ DOMAIN a \subseteq DOMAIN b
    /\ \A id \in DOMAIN a :
           IF id \in Counters THEN b[id] >= a[id] ELSE b[id] = AchTrue

\* C16: over every step of the pipeline that is not the death of the process
\* (score_game on wins, losses and blacklisted games, the fetches,
\* add_manual_achievements and the final write-out) the collection of every
\* player, as the process sees it, loses no achievement id, keeps every flag
\* set and decreases no counter; and over every step whatsoever the same
\* holds of the collection in the store.
C16_AchievementMonotone ==
    [][\A n \in Names :
           /\ (pc' # "idle" \/ last'.op = "finish") =>
                  NothingRevoked(StatsView(n).achievements,
                                 StatsView(n)'.achievements)
           /\ storeStats[n] # <<>> =>
                  /\ storeStats'[n] # <<>>
                  /\ NothingRevoked(storeStats[n][1].achievements,
                                    storeStats'[n][1].achievements)]_vars

\* C16 witness: a win has just been scored for a player who holds a manual
\* achievement from an earlier run, a flag earned by wins and both counters.
C16_Witness ==
    /\ last.op = "score"
    /\ games[last.gid].ktyp = "winning"
    /\ {"comborobin", "polytheist", "cleared_zig", "no_potion_or_scroll_win"}
           \subseteq DOMAIN StatsView(games[last.gid].name).achievements

\* A rebuild of a store that earlier runs, none of them aborted, had scored
\* completely has returned normally.
Rebuilt ==
    /\ original # <<>>
    /\ aborts = 0
    /\ pc = "idle"
    /\ last.op = "finish"
    /\ scored = 1..Len(games)

\* The aggregates of a player that the claim compares.
Compared(st) ==
    IF st = <<>> THEN <<>>
    ELSE <<[achievements |-> DOMAIN st[1].achievements, games |-> st[1].games,
            wins |-> st[1].wins]>>

\* C17: after score_games(rebuild=True) on a store that incremental runs had
\* scored, every player has the same achievement set, games and wins, and
\* the streak collections are the same, as before the rebuild.
C17_RebuildDeterminism ==
    Rebuilt =>
        /\ \A n \in Names : Compared(storeStats[n]) = Compared(original[1].st[n])
        /\ storeGlobal = original[1].sg

\* C17: what holds of the rebuild: the same, when no pair had been learned
\* as a grief before the rebuild.
C17_RebuildWithoutLearned ==
    (Rebuilt /\ storeBlacklist = <<>>) =>
        /\ \A n \in Names : Compared(storeStats[n]) = Compared(original[1].st[n])
        /\ storeGlobal = original[1].sg

\* C18: a store error in any of the three store operations of rescore_player
\* does not reach the caller: the call returns and nothing is aborted; a store
\* error in the loop of score_games, or in its final write-out, ends the run
\* with the exception.
C18_RescoreAbsorbsErrors ==
    [][/\ last'.op = "rescore" =>
              /\ aborts' = aborts
              /\ pc' = pc
       /\ (pc \in {"loop", "batch"} /\ pc' = "idle" /\ last'.op # "finish") =>
              /\ last'.op \in {"fetch", "early", "evict", "mark", "flush", "keyerror"}
              /\ aborts' = aborts + 1 \/ last'.op = "keyerror"
              /\ pcache' = <<>>
       /\ (pc \in {"loop", "batch"}
           /\ last'.op \in {"early", "evict", "mark", "flush"}) =>
              pc' = "idle" /\ aborts' = aborts + 1]_vars

\* C18 witness: rescore_player has just returned after its second store
\* operation failed: the player's streaks are deleted, the stats and the scored
\* flags are not, and no run was ever aborted.
C18_Witness ==
    /\ last.op = "rescore"
    /\ last.gid = 1
    /\ aborts = 0
    /\ pc = "idle"
    /\ storeStats[last.path] # <<>>
    /\ storeGlobal.active_streaks # <<>>
    /\ storeGlobal.active_streaks[1][Lower[last.path]] = <<>>
    /\ \E gid \in scored : games[gid].name = last.path /\ games[gid].ktyp = "winning"

\* C19: a malformed payload aborts only the processing of its game: when
\* score_game finds a field missing (potionsused in is_grief, or a god outside
\* the table of god wins), the run is still alive afterwards and goes on with
\* the rest of the batch.
C19_ValidationPerGame ==
    [][last'.op = "keyerror" =>
           /\ pc' \in {"loop", "batch"}
           /\ batch' = Tail(batch)
           /\ aborts' = aborts]_vars

\* What the code does on such a game: the KeyError leaves score_games, the
\* process ends with its caches, and the game stays unscored at the head of
\* the next fetch.
C19_ValidationEndsRun ==
    [][last'.op = "keyerror" =>
           /\ pc' = "idle"
           /\ batch' = <<>>
           /\ pcache' = <<>> /\ gcache' = <<>>
           /\ last'.gid \notin scored'
           /\ scored' = scored]_vars

\* A win that is a valid addition to the streak of its player is scored.
WinScored(gid) ==
    LET g == games[gid]
        sk == ActiveView[Lower[g.name]]
    IN  /\ Scores(gid)
        /\ ~Flagged(blcache, g.name, g.src)
        /\ g.ktyp = "winning"
        /\ sk = <<>> \/ g.start > sk[1].start

\* C20: after a valid win of a player without an active streak the player has
\* the active streak wins = [gid], start = end = the end of the game; after a
\* valid win of a player with an active streak the game is appended to its
\* wins, its end is the end of the game and its start is unchanged.
C20_WinTransition ==
    [][\A gid \in 1..Len(games) :
           LET g == games[gid]
               sk == ActiveView[Lower[g.name]]
               new == ActiveView'[Lower[g.name]]
           IN  WinScored(gid) =>
                   /\ new # <<>>
                   /\ new[1].end = g.end
                   /\ IF sk = <<>>
                      THEN new[1].wins = <<gid>> /\ new[1].start = g.end
                      ELSE /\ new[1].wins = Append(sk[1].wins, gid)
                           /\ new[1].start = sk[1].start]_vars

\* The transition as the code makes it: the streak a win starts has wins and
\* start but no end yet; the streak a win extends gets the end of the game.
C20_WinTransitionNoEnd ==
    [][\A gid \in 1..Len(games) :
           LET g == games[gid]
               sk == ActiveView[Lower[g.name]]
               new == ActiveView'[Lower[g.name]]
           IN  WinScored(gid) =>
                   /\ new # <<>>
                   /\ IF sk = <<>>
                      THEN /\ new[1].wins = <<gid>>
                           /\ new[1].start = g.end
                           /\ new[1].end = NoEnd
                      ELSE /\ new[1].wins = Append(sk[1].wins, gid)
                           /\ new[1].start = sk[1].start
                           /\ new[1].end = g.end]_vars

\* Every active streak of two or more wins ends at the end of its last win,
\* and every active streak starts at the end of its first win.
C20_ExtendedStreakEnd ==
    \A c \in DOMAIN ActiveView :
        ActiveView[c] # <<>> =>
            LET sk == ActiveView[c][1]
            IN  /\ sk.wins # <<>>
                /\ sk.start = games[sk.wins[1]].end
                /\ IF Len(sk.wins) >= 2
                   THEN sk.end = games[sk.wins[Len(sk.wins)]].end
                   ELSE sk.end = NoEnd

\* A loss of a pair that is not flagged is scored.
LossScored(gid) ==
    /\ Scores(gid)
    /\ ~Flagged(blcache, games[gid].name, games[gid].src)
    /\ games[gid].ktyp # "winning"

\* The pairs the guard flags.
FlaggedPairs(c) ==
    {x \in Names \X DOMAIN Chars : Flagged(c, x[1], x[2])}

\* C21: a loss scored for a player without an active streak changes neither
\* active_streaks nor completed_streaks; a valid loss scored for a player whose
\* active streak has exactly one win removes that streak from active_streaks,
\* appends nothing to completed_streaks, does not run the grief heuristic and
\* blacklists nobody.
C21_ShortStreakLoss ==
    [][\A gid \in 1..Len(games) :
           LET g == games[gid]
               sk == ActiveView[Lower[g.name]]
           IN  LossScored(gid) =>
                   /\ sk = <<>> =>
                          /\ ActiveView' = ActiveView
                          /\ CompletedView' = CompletedView
                   /\ (sk # <<>> /\ Len(sk[1].wins) = 1 /\ g.start > sk[1].start) =>
                          /\ ActiveView' = [ActiveView EXCEPT ![Lower[g.name]] = <<>>]
                          /\ CompletedView' = CompletedView
                          /\ last'.path = "discard"
                          /\ storeBlacklist' = storeBlacklist
                          /\ FlaggedPairs(blcache') = FlaggedPairs(blcache)]_vars

\* C21 witness: a one-win streak has just been discarded by a loss that is the
\* first game of its player on its server and below the grief thresholds, and
\* nobody is blacklisted.
C21_Witness ==
    /\ last.op = "score"
    /\ last.path = "discard"
    /\ FirstOnServer(last.gid)
    /\ GriefThresholds(games[last.gid])
    /\ ActiveView[Lower[games[last.gid].name]] = <<>>
    /\ CompletedView = <<>>
    /\ storeBlacklist = <<>>

\* C22: when a player has an active streak and a game of that player, won or
\* lost, does not start strictly after the recorded start of the streak, then
\* scoring the game leaves active_streaks, completed_streaks and the blacklist
\* unchanged, while the stats of the player absorb the game and the game is
\* marked scored.
C22_ValidityPrecheck ==
    [][\A gid \in 1..Len(games) :
           LET g == games[gid]
               sk == ActiveView[Lower[g.name]]
               st == StatsView(g.name)
           IN  (/\ Scores(gid)
                /\ ~Flagged(blcache, g.name, g.src)
                /\ sk # <<>>
                /\ g.start <= sk[1].start) =>
                   /\ ActiveView' = ActiveView
                   /\ CompletedView' = CompletedView
                   /\ storeBlacklist' = storeBlacklist
                   /\ FlaggedPairs(blcache') = FlaggedPairs(blcache)
                   /\ gid \in scored'
                   /\ StatsView(g.name)'.games = st.games + 1
                   /\ StatsView(g.name)'.last_active = g.end
                   /\ StatsView(g.name)'.total_score = st.total_score + g.sc
                   /\ StatsView(g.name)'.wins =
                          IF g.ktyp = "winning" THEN Append(st.wins, gid) ELSE st.wins]_vars

\* C22 witness: a loss that starts exactly at the recorded start of a two-win
\* streak, the first game of its player on its server and below the grief
\* thresholds, has just been scored: the streak is still active and nobody is
\* blacklisted.
C22_Witness ==
    /\ last.op = "score"
    /\ last.path = "invalid"
    /\ games[last.gid].ktyp # "winning"
    /\ FirstOnServer(last.gid)
    /\ GriefThresholds(games[last.gid])
    /\ ActiveView[Lower[games[last.gid].name]] # <<>>
    /\ Len(ActiveView[Lower[games[last.gid].name]][1].wins) = 2
    /\ games[last.gid].start = ActiveView[Lower[games[last.gid].name]][1].start
    /\ storeBlacklist = <<>>
    /\ last.gid \in scored

\* s is t with streaks appended.
IsPrefix(s, t) == Len(s) <= Len(t) /\ SubSeq(t, 1, Len(s)) = s

\* The completed list of the store.
StoredCompleted ==
    IF storeGlobal.completed_streaks # <<>> THEN storeGlobal.completed_streaks[1]
    ELSE <<>>

\* The streaks of an active map.
StreaksOf(m) == {m[c][1] : c \in {d \in DOMAIN m : m[d] # <<>>}}

\* Two streak records of one streak: the same player and the same first win.
SameStreak(a, b) == a.cname = b.cname /\ a.wins[1] = b.wins[1]

\* C23: completed_streaks only grows at its end: every step of a run that is
\* not cut short leaves the streaks it holds as they are (wins, start, end and
\* streak_breaker) and in their order, the same goes for the list in the store
\* on every step, and no streak is in active_streaks and in completed_streaks
\* at once.
C23_CompletedAppendOnly ==
    [][/\ (pc' # "idle" \/ last'.op = "finish") => IsPrefix(CompletedView, CompletedView')
       /\ IsPrefix(StoredCompleted, StoredCompleted')
       /\ \A a \in StreaksOf(ActiveView') :
              \A i \in 1..Len(CompletedView') : ~SameStreak(a, CompletedView'[i])]_vars

\* C23 witness: a second streak of the same player has just been finalised
\* behind the first one.
C23_Witness ==
    /\ last.op = "score"
    /\ last.path = "finalize"
    /\ Len(CompletedView) = 2
    /\ CompletedView[1].cname = CompletedView[2].cname
    /\ CompletedView[1].streak_breaker = 3
    /\ ActiveView[CompletedView[1].cname] = <<>>

\* The roles of the wins of aggregate st played as race x, and the races of
\* its wins played as role y.
RolesWonAs(st, x) == {games[w].bg : w \in {v \in Range(st.wins) : games[v].rc = x}}

RacesWonAs(st, y) == {games[w].rc : w \in {v \in Range(st.wins) : games[v].bg = y}}

\* C24: in every aggregate the great-race achievement of a race is present
\* exactly when the roles of the recorded wins as that race cover the playable
\* roles, and the great-role achievement of a role exactly when the races of
\* the recorded wins as that role cover the playable races; so the prefilter
\* on the win count never holds back an unlock.
C24_GreatRaceRole ==
    \A st \in AllStats :
        /\ \A x \in DOMAIN RACE_TO_GREAT_RACE :
               (RACE_TO_GREAT_RACE[x] \in DOMAIN st.achievements)
                   <=> (PLAYABLE_ROLES \subseteq RolesWonAs(st, x))
        /\ \A y \in DOMAIN ROLE_TO_GREAT_ROLE :
               (ROLE_TO_GREAT_ROLE[y] \in DOMAIN st.achievements)
                   <=> (PLAYABLE_RACES \subseteq RacesWonAs(st, y))

\* C24 witness: a win has just completed a great race with exactly as many
\* wins as there are playable roles, and the player has a role won with one
\* race only.
C24_Witness ==
    /\ last.op = "score"
    /\ games[last.gid].ktyp = "winning"
    /\ LET st == StatsView(games[last.gid].name)
       IN  /\ "greathuman" \in DOMAIN st.achievements
           /\ st.race_wins["Hu"] = Cardinality(PLAYABLE_ROLES)
           /\ "greatfighter" \notin DOMAIN st.achievements
           /\ st.role_wins["Fi"] >= 1

\* A win of a pair that is not flagged is scored.
WinReturns(gid) ==
    /\ Scores(gid)
    /\ ~Flagged(blcache, games[gid].name, games[gid].src)
    /\ games[gid].ktyp = "winning"

Has(st, id) == id \in DOMAIN st.achievements

\* C25: in every aggregate polytheist is present exactly when every playable
\* god has at least one win; the win that sets it is the one that takes the
\* last god without a win from 0 to 1, and a win with a god that already had
\* a win leaves it as it was.
C25_Polytheist ==
    [][/\ \A st \in AllStats' :
              Has(st, "polytheist") <=> (\A d \in PLAYABLE_GODS : st.god_wins[d] >= 1)
       /\ \A gid \in 1..Len(games) :
              LET g == games[gid]
                  st == StatsView(g.name)
              IN  WinReturns(gid) =>
                      /\ st.god_wins[g.god] >= 1 =>
                             (Has(StatsView(g.name)', "polytheist") <=> Has(st, "polytheist"))
                      /\ (Has(StatsView(g.name)', "polytheist") /\ ~Has(st, "polytheist")) =>
                             /\ st.god_wins[g.god] = 0
                             /\ \A d \in PLAYABLE_GODS \ {g.god} : st.god_wins[d] >= 1]_vars

\* C25 witness: the third win of a player has just unlocked polytheist: its
\* god had no win before, the other god had two.
C25_Witness ==
    /\ last.op = "score"
    /\ games[last.gid].ktyp = "winning"
    /\ LET st == StatsView(games[last.gid].name)
       IN  /\ Has(st, "polytheist")
           /\ Len(st.wins) = 3
           /\ st.god_wins[games[last.gid].god] = 1

\* C26: in every aggregate greatplayer is present exactly when every playable
\* race has at least one win, and greaterplayer exactly when greatplayer is
\* present and every playable role has at least one win; so greaterplayer is
\* never present without greatplayer.
C26_GreatGreater ==
    \A st \in AllStats :
        /\ Has(st, "greatplayer")
               <=> (\A x \in PLAYABLE_RACES : Get0(st.race_wins, x) >= 1)
        /\ Has(st, "greaterplayer")
               <=> (/\ Has(st, "greatplayer")
                    /\ \A y \in PLAYABLE_ROLES : Get0(st.role_wins, y) >= 1)
        /\ Has(st, "greaterplayer") => Has(st, "greatplayer")

\* C26 witness: the second win of a player has just completed the races and
\* the roles at once, and both achievements are there.
C26_Witness ==
    /\ last.op = "score"
    /\ games[last.gid].ktyp = "winning"
    /\ LET st == StatsView(games[last.gid].name)
       IN  /\ Len(st.wins) = Cardinality(PLAYABLE_RACES)
           /\ st.race_wins[games[last.gid].rc] = 1
           /\ st.role_wins[games[last.gid].bg] = 1
           /\ Has(st, "greatplayer")
           /\ Has(st, "greaterplayer")

\* The other order: the roles were complete before the races, and the win that
\* completes the races brings both achievements.
C26_RolesFirst ==
    /\ last.op = "score"
    /\ games[last.gid].ktyp = "winning"
    /\ LET st == StatsView(games[last.gid].name)
       IN  /\ st.race_wins[games[last.gid].rc] = 1
           /\ st.role_wins[games[last.gid].bg] = 2
           /\ Has(st, "greatplayer")
           /\ Has(st, "greaterplayer")

\* C27: when the store calls succeed, every game of a fetched batch is marked
\* scored by the step that handles it, whatever the game, and the run goes on
\* to the next game or the next fetch; the loop is left on an empty fetch only,
\* and when score_games returns no game is unscored.
C27_PipelineTerminates ==
    [][/\ pc = "batch" =>
              /\ Head(batch) \in scored'
              /\ pc' \in {"batch", "loop"}
       /\ (pc = "loop" /\ pc' = "idle") =>
              /\ last'.op = "finish"
              /\ scored' = 1..Len(games)]_vars

\* What holds of the loop: a game whose score_game returns is marked scored,
\* a fetch happens when the previous batch is used up and returns unscored
\* games only, and a run that returns leaves no unscored game.
C27_LoopDrains ==
    [][/\ \A gid \in 1..Len(games) : Scores(gid) => gid \in scored' \ scored
       /\ pc = "loop" => batch = <<>>
       /\ pc' = "batch" => \A i \in 1..Len(batch') : batch'[i] \notin scored'
       /\ last'.op = "finish" => scored' = 1..Len(games)]_vars

\* The work a run has left: two per unscored game, one more before a fetch.
WorkLeft == 2 * Len(Unscored) + (IF pc = "loop" THEN 1 ELSE 0)

\* A run always ends, by returning or with an exception: every step of a run
\* that does not end it leaves less work.
C27_RunEnds ==
    [][(pc # "idle" /\ pc' # "idle") => WorkLeft' < WorkLeft]_vars

\* A run that meets no malformed game returns with every game scored.
C27_CleanRunReturns ==
    [][(pc # "idle" /\ pc' = "idle" /\ last'.op # "keyerror") =>
           (last'.op = "finish" /\ scored' = 1..Len(games))]_vars

\* score_game is called for a win of a pair that is not flagged, with a god
\* outside the playable gods.
GodlessWinHandled(gid) ==
    /\ pc = "batch"
    /\ Head(batch) = gid
    /\ ~Flagged(blcache, games[gid].name, games[gid].src)
    /\ games[gid].ktyp = "winning"
    /\ games[gid].god \notin PLAYABLE_GODS

\* C28: scoring a win whose god is not a playable god completes: the game is
\* among the wins of its player, polytheist is as it was, and the game is
\* marked scored.
C28_GodlessWin ==
    [][\A gid \in 1..Len(games) :
           GodlessWinHandled(gid) =>
               /\ last'.op = "score"
               /\ gid \in scored'
               /\ StatsView(games[gid].name)'.wins =
                      Append(StatsView(games[gid].name).wins, gid)
               /\ Has(StatsView(games[gid].name)', "polytheist")
                      <=> Has(StatsView(games[gid].name), "polytheist")]_vars

\* What the code does with such a win: KeyError ends the run, the game is not
\* marked scored and nothing of it reaches the store.
C28_GodlessWinRaises ==
    [][\A gid \in 1..Len(games) :
           GodlessWinHandled(gid) =>
               /\ last'.op = "keyerror"
               /\ pc' = "idle"
               /\ gid \notin scored'
               /\ storeStats' = storeStats
               /\ storeGlobal' = storeGlobal]_vars

\* The active map of the store.
StoredActive ==
    IF storeGlobal.active_streaks # <<>> THEN storeGlobal.active_streaks[1]
    ELSE NoStreaks

\* The streaks of an active map and a completed list are well formed: every
\* win is a won game of the streak's player, no game occurs twice in a streak
\* or in two of them, and an active streak sits under its cname.
StreaksWellFormed(m, l) ==
    /\ \A c \in DOMAIN m : m[c] # <<>> => m[c][1].cname = c
    /\ \A sk \in StreaksOf(m) \cup Range(l) :
           /\ NoDup(sk.wins)
           /\ \A w \in Range(sk.wins) :
                  /\ w \in 1..Len(games)
                  /\ games[w].ktyp = "winning"
                  /\ Lower[games[w].name] = sk.cname
    /\ \A a, b \in StreaksOf(m) \cup Range(l) :
           a # b => Range(a.wins) \cap Range(b.wins) = {}
    /\ \A i, j \in 1..Len(l) : i # j => Range(l[i].wins) \cap Range(l[j].wins) = {}

\* C29: in every state, in the collections a running process sees and in the
\* collections of the store, every win of an active or completed streak is a
\* won game of a player whose lowercased name is the streak's cname, no game
\* occurs twice in a streak or in two streaks, and every active streak is
\* kept under its cname.
C29_StreaksWellFormed ==
    /\ StreaksWellFormed(ActiveView, CompletedView)
    /\ StreaksWellFormed(StoredActive, StoredCompleted)

\* C29 witness: behind a completed streak, the player has an active streak
\* with wins under both capitalisations of the name.
C29_Witness ==
    /\ CompletedView # <<>>
    /\ ActiveView["foo"] # <<>>
    /\ \E v, w \in Range(ActiveView["foo"][1].wins) :
           games[v].name = "Foo" /\ games[w].name = "foo"

====
